---------------------------- MODULE Spec2Model ----------------------------
(***************************************************************************)
(* A model of the Chataigne catalog validator                              *)
(* (catalog-builder/scripts/validate-catalog.py).                          *)
(*                                                                         *)
(* One run of main() is one behaviour: the command line and the input     *)
(* file are chosen in Init, every rule group of CatalogValidator.validate *)
(* is one step, then print_report and sys.exit.  Texts are sequences of   *)
(* one-character strings, so that the regular expressions, the string     *)
(* methods and difflib's similarity ratio are computed character by       *)
(* character.  A diagnostic message is a record holding the message       *)
(* template it was formatted from (kind) and the values formatted into it.*)
(***************************************************************************)
EXTENDS Integers, Sequences, FiniteSets, TLC

(***************************************************************************)
(* Characters and texts                                                    *)
(***************************************************************************)
UpperSeq == <<"A","B","C","D","E","F","G","H","I","J","K","L","M",
              "N","O","P","Q","R","S","T","U","V","W","X","Y","Z">>

LowerSeq == <<"a","b","c","d","e","f","g","h","i","j","k","l","m",
              "n","o","p","q","r","s","t","u","v","w","x","y","z">>

DigitSeq == <<"0","1","2","3","4","5","6","7","8","9">>

\* The characters of the model in code point order (str comparison).
AsciiSeq == <<"\n"," ","!","(",")","-",".","/">> \o DigitSeq \o <<":","?">>
            \o UpperSeq \o <<"_">> \o LowerSeq

Range(s) == {s[i] : i \in 1..Len(s)}

UpperChars == Range(UpperSeq)

LowerChars == Range(LowerSeq)

DigitChars == Range(DigitSeq)

\* \s of the re module, within the characters of the model.
SpaceChars == {" ", "\n"}

IndexOf(c, s) == CHOOSE i \in 1..Len(s) : s[i] = c

Ord(c) == IndexOf(c, AsciiSeq)

\* str.upper() on one character.
ToUpper(c) == IF c \in LowerChars THEN UpperSeq[IndexOf(c, LowerSeq)] ELSE c

\* Python's < on str: by code point, a proper prefix is smaller.
RECURSIVE StrLess(_, _)
StrLess(a, b) ==
    IF b = <<>> THEN FALSE
    ELSE IF a = <<>> THEN TRUE
    ELSE IF a[1] # b[1] THEN Ord(a[1]) < Ord(b[1])
    ELSE StrLess(Tail(a), Tail(b))

RECURSIVE Join(_)
Join(ss) == IF ss = <<>> THEN <<>> ELSE Head(ss) \o Join(Tail(ss))

\* s[lo:] for a 0-based offset lo.
Drop(s, lo) == SubSeq(s, lo + 1, Len(s))

\* str.find(sub): the 0-based offset of the first occurrence, or -1.
Find(s, sub) ==
    LET hits == {i \in 0..(Len(s) - Len(sub)) : SubSeq(s, i + 1, i + Len(sub)) = sub}
    IN IF hits = {} THEN -1 ELSE CHOOSE i \in hits : \A j \in hits : i <= j

\* str.split(sep)[0]
SplitFirst(s, sep) ==
    IF Find(s, sep) = -1 THEN s ELSE SubSeq(s, 1, Find(s, sep))

MaxOf(S) == CHOOSE x \in S : \A y \in S : y <= x

MinOf(S) == CHOOSE x \in S : \A y \in S : x <= y

(***************************************************************************)
(* difflib.SequenceMatcher and get_close_matches, for texts shorter than   *)
(* the 200 characters at which the autojunk heuristic starts.              *)
(***************************************************************************)
\* The length of the common run of a[i:ahi] and b[j:bhi] (0-based offsets).
RECURSIVE MatchLen(_, _, _, _, _, _)
MatchLen(a, b, i, j, ahi, bhi) ==
    IF i >= ahi \/ j >= bhi \/ a[i + 1] # b[j + 1] THEN 0
    ELSE 1 + MatchLen(a, b, i + 1, j + 1, ahi, bhi)

\* The blocks find_longest_match chooses among: the empty block at
\* (alo, blo) it starts from, and every common run of a[alo:ahi], b[blo:bhi].
Blocks(a, b, alo, ahi, blo, bhi) ==
    {[i |-> alo, j |-> blo, k |-> 0]}
      \cup {[i |-> i, j |-> j, k |-> MatchLen(a, b, i, j, ahi, bhi)] :
              i \in alo..(ahi - 1), j \in blo..(bhi - 1)}

\* m is kept over q: it is longer, or as long and starts no later in a, or
\* as long, at the same place in a, and starts no later in b.
Preferred(m, q) ==
    \/ m.k > q.k
    \/ m.k = q.k /\ m.k = 0
    \/ m.k = q.k /\ m.i < q.i
    \/ m.k = q.k /\ m.i = q.i /\ m.j <= q.j

Longest(blocks) ==
    CHOOSE m \in blocks : \A q \in blocks : Preferred(m, q)

\* find_longest_match: the longest block, of those the one that starts
\* earliest in a, of those the one that starts earliest in b.
find_longest_match(a, b, alo, ahi, blo, bhi) ==
    LET m == Longest(Blocks(a, b, alo, ahi, blo, bhi))
    IN IF m.k = 0 THEN [i |-> alo, j |-> blo, k |-> 0] ELSE m

\* get_matching_blocks, summed: the number of matched characters, m being
\* the longest match of a[alo:ahi] and b[blo:bhi].
RECURSIVE MatchedAround(_, _, _, _, _, _, _)
MatchedAround(a, b, alo, ahi, blo, bhi, m) ==
    IF m.k = 0 THEN 0
    ELSE m.k
         + (IF alo < m.i /\ blo < m.j
            THEN MatchedAround(a, b, alo, m.i, blo, m.j,
                               find_longest_match(a, b, alo, m.i, blo, m.j))
            ELSE 0)
         + (IF m.i + m.k < ahi /\ m.j + m.k < bhi
            THEN MatchedAround(a, b, m.i + m.k, ahi, m.j + m.k, bhi,
                               find_longest_match(a, b, m.i + m.k, ahi, m.j + m.k, bhi))
            ELSE 0)

MatchedSize(a, b, alo, ahi, blo, bhi) ==
    MatchedAround(a, b, alo, ahi, blo, bhi, find_longest_match(a, b, alo, ahi, blo, bhi))

\* SequenceMatcher.ratio() as the fraction num/den (1.0 when both are empty).
ratio(a, b) ==
    IF Len(a) + Len(b) = 0 THEN [num |-> 1, den |-> 1]
    ELSE [num |-> 2 * MatchedSize(a, b, 0, Len(a), 0, Len(b)),
          den |-> Len(a) + Len(b)]

\* cutoff=0.6 of every get_close_matches call, as the fraction 6/10.
CutoffNum == 6

CutoffDen == 10

\* A cutoff that every candidate meets.
MeetsNoCutoff(r) == r.num >= 0

MeetsCutoff(r) == r.num * CutoffDen >= CutoffNum * r.den

RatioLess(r, q) == r.num * q.den < q.num * r.den

\* The (score, x) tuples of get_close_matches are compared by score, then by x.
ScoredLess(p, q) ==
    \/ RatioLess(p.score, q.score)
    \/ /\ ~RatioLess(q.score, p.score)
       /\ StrLess(p.x, q.x)

\* result.append((s.ratio(), x)) for every candidate that meets the cutoff;
\* seq1 is the candidate and seq2 the word.
Scored(word, possibilities) ==
    {p \in {[score |-> ratio(x, word), x |-> x] : x \in possibilities} :
       MeetsCutoff(p.score)}

\* heapq.nlargest(1, result)
Largest(result) ==
    IF result = {} THEN <<>>
    ELSE <<(CHOOSE p \in result : \A q \in result : q = p \/ ScoredLess(q, p)).x>>

\* get_close_matches(word, possibilities, n=1, cutoff=0.6): a sequence of at
\* most one text.
get_close_matches(word, possibilities) == Largest(Scored(word, possibilities))

(***************************************************************************)
(* REF_PATTERN and _suggest_ref                                            *)
(***************************************************************************)
RefChars == UpperChars \cup DigitChars

\* The offset after the longest run of [A-Z0-9] that starts at offset p.
RECURSIVE SkipRefChars(_, _)
SkipRefChars(s, p) ==
    IF p < Len(s) /\ s[p + 1] \in RefChars THEN SkipRefChars(s, p + 1) ELSE p

\* (_[A-Z0-9]+)* from offset p: the offset where the repetition stops.
RECURSIVE SkipRefGroups(_, _)
SkipRefGroups(s, p) ==
    IF p + 1 < Len(s) /\ s[p + 1] = "_" /\ s[p + 2] \in RefChars
    THEN SkipRefGroups(s, SkipRefChars(s, p + 1))
    ELSE p

\* The pattern without its first character class: [A-Z0-9]*(_[A-Z0-9]+)*$
REF_PATTERN_loose(s) ==
    LET p == SkipRefGroups(s, SkipRefChars(s, 0))
    IN p = Len(s) \/ (p = Len(s) - 1 /\ s[Len(s)] = "\n")

\* REF_PATTERN.match(s) is not None.  $ matches at the end of the text and
\* before a line break that ends it.
REF_PATTERN(s) ==
    /\ Len(s) >= 1
    /\ s[1] \in UpperChars
    /\ LET p == SkipRefGroups(s, SkipRefChars(s, 1))
       IN \/ p = Len(s)
          \/ p = Len(s) - 1 /\ s[Len(s)] = "\n"

\* re.sub(r'[-\s]+', '_', value)
RECURSIVE SubSeparators(_)
SubSeparators(s) ==
    IF s = <<>> THEN <<>>
    ELSE IF s[1] \in SpaceChars \cup {"-"}
         THEN IF Len(s) >= 2 /\ s[2] \in SpaceChars \cup {"-"}
              THEN SubSeparators(Tail(s))
              ELSE <<"_">> \o SubSeparators(Tail(s))
         ELSE <<s[1]>> \o SubSeparators(Tail(s))

\* No underscore at the lowercase-to-uppercase transitions.
SubCamel_none(s) == s

\* re.sub(r'([a-z])([A-Z])', r'\1_\2', result): matches do not overlap.
RECURSIVE SubCamel(_)
SubCamel(s) ==
    IF s = <<>> THEN <<>>
    ELSE IF Len(s) >= 2 /\ s[1] \in LowerChars /\ s[2] \in UpperChars
         THEN <<s[1], "_", s[2]>> \o SubCamel(Drop(s, 2))
         ELSE <<s[1]>> \o SubCamel(Tail(s))

\* result.upper()
RECURSIVE Upper(_)
Upper(s) == IF s = <<>> THEN <<>> ELSE <<ToUpper(s[1])>> \o Upper(Tail(s))

\* re.sub(r'[^A-Z0-9_]', '', result)
SubNonRef(s) == SelectSeq(s, LAMBDA c : c \in RefChars \cup {"_"})

\* re.sub(r'_+', '_', result)
RECURSIVE SubUnderscores(_)
SubUnderscores(s) ==
    IF s = <<>> THEN <<>>
    ELSE IF s[1] = "_" /\ Len(s) >= 2 /\ s[2] = "_" THEN SubUnderscores(Tail(s))
    ELSE <<s[1]>> \o SubUnderscores(Tail(s))

RECURSIVE LStrip(_, _)
LStrip(s, chars) == IF s # <<>> /\ s[1] \in chars THEN LStrip(Tail(s), chars) ELSE s

RECURSIVE RStrip(_, _)
RStrip(s, chars) ==
    IF s # <<>> /\ s[Len(s)] \in chars
    THEN RStrip(SubSeq(s, 1, Len(s) - 1), chars) ELSE s

\* str.strip(chars); str.strip() strips white space.
Strip(s, chars) == RStrip(LStrip(s, chars), chars)

UNNAMED == <<"U","N","N","A","M","E","D">>

suggest_ref(value) ==
    LET result == Strip(SubUnderscores(SubNonRef(Upper(SubCamel(SubSeparators(value))))), {"_"})
    IN IF result = <<>> THEN UNNAMED ELSE result

(***************************************************************************)
(* JSON values.  A scalar is a record with the tag t of its type; a field  *)
(* that the document does not hold is Absent (dict.get gives None or the   *)
(* default), a field holding null is Null (dict.get gives None).           *)
(***************************************************************************)
Absent == [t |-> "absent", s |-> <<>>, n |-> 0]

Null == [t |-> "null", s |-> <<>>, n |-> 0]

Str(s) == [t |-> "str", s |-> s, n |-> 0]

Num(n) == [t |-> "num", s |-> <<>>, n |-> n]

Bool(b) == [t |-> "bool", s |-> <<>>, n |-> IF b THEN 1 ELSE 0]

\* bool(v) of Python for a scalar.
Truthy(v) ==
    \/ v.t = "str" /\ v.s # <<>>
    \/ v.t \in {"num", "bool"} /\ v.n # 0

\* isinstance(v, (int, float)): bool is a subclass of int.
IsNumber(v) == v.t \in {"num", "bool"}

TextQuestion == <<"?">>

TextUnknown == <<"U","n","k","n","o","w","n">>

TextNone == <<"N","o","n","e">>

\* The decimal digits of a small natural number, as str() prints them.
RECURSIVE Digits(_)
Digits(n) ==
    IF n < 10 THEN <<DigitSeq[n + 1]>>
    ELSE Digits(n \div 10) \o <<DigitSeq[(n % 10) + 1]>>

\* What an f-string prints for a scalar.
Fmt(v) ==
    CASE v.t = "str" -> v.s
      [] v.t = "num" -> IF v.n < 0 THEN <<"-">> \o Digits(-v.n) ELSE Digits(v.n)
      [] v.t = "bool" -> IF v.n = 1 THEN <<"T","r","u","e">> ELSE <<"F","a","l","s","e">>
      [] OTHER -> TextNone

\* f'{d.get(key, default)}'
FmtOr(v, default) == IF v.t = "absent" THEN default ELSE Fmt(v)

\* d.get(key, default)
GetOr(v, default) == IF v.t = "absent" THEN default ELSE v

\* f'{d.get("name") or label}' with label = f'Deal #{i+1}' and the like.
NameOrLabel(v, label, i) ==
    IF Truthy(v) THEN Fmt(v) ELSE label \o <<" ", "#">> \o Digits(i)

(***************************************************************************)
(* Diagnostics: an entry of self.errors or self.warnings.                  *)
(***************************************************************************)
NoSuggestion == <<>>

Diag(kind) ==
    [kind |-> kind, val |-> <<>>, owner |-> <<>>, sugg |-> NoSuggestion,
     nums |-> <<>>, names |-> <<>>]

\* What a rule group, or a part of one, did: the errors and warnings it
\* appended, and whether it raised (after appending them).
Ok(e, w) == [e |-> e, w |-> w, raised |-> FALSE]

Nothing == Ok(<<>>, <<>>)

Error(d) == Ok(<<d>>, <<>>)

Warning(d) == Ok(<<>>, <<d>>)

Raise == [e |-> <<>>, w |-> <<>>, raised |-> TRUE]

\* r, and then q unless r raised.
Then(r, q) ==
    IF r.raised THEN r
    ELSE [e |-> r.e \o q.e, w |-> r.w \o q.w, raised |-> q.raised]

\* rs[1], then rs[2], ...: a loop whose i-th pass does rs[i].
RECURSIVE InOrder(_)
InOrder(rs) == IF rs = <<>> THEN Nothing ELSE Then(Head(rs), InOrder(Tail(rs)))

RECURSIVE MapSeq(_, _, _)
MapSeq(F(_, _), items, i) ==
    IF i > Len(items) THEN <<>> ELSE <<F(items[i], i)>> \o MapSeq(F, items, i + 1)

\* for i, item in enumerate(items): F(item, i + 1)
ForEach(items, F(_, _)) == InOrder(MapSeq(F, items, 1))

(***************************************************************************)
(* The document.  doc.top is the type of the parsed JSON value, doc.catalog*)
(* the type of its 'catalog' member, doc.keys the keys the catalog object  *)
(* holds; an entity list that is not among the keys reads as [].           *)
(***************************************************************************)
\* catalog.get(key, [])
Entities(d, key) == IF d.catalog = "dict" /\ key \in d.keys THEN d[key] ELSE <<>>

\* catalog.get('name', '') and catalog.get('settings', {})
Field(d, key) == IF d.catalog = "dict" /\ key \in d.keys THEN d[key] ELSE Absent

\* 'catalog' in self.catalog_json, where the code tests the value.
CatalogPresent(d) == d.catalog # "absent"

\* bool(self.catalog_json.get('catalog'))
CatalogTruthy(d) ==
    \/ d.catalog = "dict" /\ d.keys # {}
    \/ d.catalog = "str" /\ d.catalog_str # <<>>

\* Every rule group starts with catalog = self.catalog_json.get('catalog', {})
\* and reads the catalog with catalog.get, which only a dict has.
CatalogReadable(d) == d.top = "dict" /\ d.catalog \in {"absent", "dict"}

\* set(x.get('name') for x in items if x.get('name')): raises on an entry
\* that is not an object.
AllObjects(items) == \A i \in 1..Len(items) : items[i].obj

\* The set of the refs, where the code collects the names.
TruthyRefs(items) == {items[i].ref : i \in {j \in 1..Len(items) : Truthy(items[j].ref)}}

TruthyNames(items) == {items[i].name : i \in {j \in 1..Len(items) : Truthy(items[j].name)}}

\* similar[0] if similar else default
FirstOr(similar, default) == IF similar # <<>> THEN similar[1] ELSE default

\* An error that carries the suggestion where the code prints the reference.
UnresolvedAsSuggested(kind, ref, owner, names) ==
    IF ref.t # "str" \/ \E x \in names : x.t # "str" THEN Raise
    ELSE Error([Diag(kind) EXCEPT
                  !.val = FirstOr(get_close_matches(ref.s, {x.s : x \in names}), ref.s),
                  !.owner = owner,
                  !.sugg = FirstOr(get_close_matches(ref.s, {x.s : x \in names}),
                                   NoSuggestion)])

\* The unresolved-reference error of one reference: get_close_matches needs
\* the word and the candidates to be texts.
Unresolved(kind, ref, owner, names) ==
    IF ref.t # "str" \/ \E x \in names : x.t # "str" THEN Raise
    ELSE Error([Diag(kind) EXCEPT !.val = ref.s, !.owner = owner,
                  !.sugg = FirstOr(get_close_matches(ref.s, {x.s : x \in names}),
                                   NoSuggestion)])

(***************************************************************************)
(* The rule groups of CatalogValidator, in the order validate() calls them *)
(***************************************************************************)
validate_root_structure(d) ==
    IF d.top # "dict" THEN Raise
    ELSE IF ~CatalogTruthy(d) THEN Error(Diag("catalog_missing"))
    ELSE Nothing

validate_catalog_name(d) ==
    IF ~CatalogReadable(d) THEN Raise
    ELSE LET name == GetOr(Field(d, "name"), Str(<<>>))
         IN IF name.t # "str" THEN Raise
            ELSE IF Strip(name.s, SpaceChars) = <<>>
                 THEN Error(Diag("catalog_name_required"))
                 ELSE Nothing

validate_option_list_references_in_options(d) ==
    IF ~CatalogReadable(d) \/ ~AllObjects(Entities(d, "optionLists")) THEN Raise
    ELSE LET option_list_names == TruthyNames(Entities(d, "optionLists"))
             Check(opt, i) ==
                 IF ~opt.obj THEN Raise
                 ELSE IF Truthy(opt.optionListName)
                         /\ opt.optionListName \notin option_list_names
                      THEN Unresolved("option_list_undefined_in_options",
                                      opt.optionListName, <<>>, option_list_names)
                      ELSE Nothing
         IN ForEach(Entities(d, "options"), Check)

validate_category_references_in_products(d) ==
    IF ~CatalogReadable(d) \/ ~AllObjects(Entities(d, "categories")) THEN Raise
    ELSE LET category_names == TruthyNames(Entities(d, "categories"))
             Check(prod, i) ==
                 IF ~prod.obj THEN Raise
                 ELSE IF Truthy(prod.categoryName)
                         /\ prod.categoryName \notin category_names
                      THEN Unresolved("category_undefined_in_product", prod.categoryName,
                                      FmtOr(prod.name, TextQuestion), category_names)
                      ELSE Nothing
         IN ForEach(Entities(d, "products"), Check)

\* A price member: t is its type, n its value when it is a number, amount
\* and currency its members when it is an object.
NoPrice == [t |-> "absent", n |-> 0, amount |-> Absent, currency |-> Absent]

\* product.get('sku', {}): a sku has the members price and optionListNames.
EmptySku == [t |-> "dict", price |-> NoPrice, optionListNames |-> <<>>]

SkuOf(product) == IF product.sku.t = "absent" THEN EmptySku ELSE product.sku

validate_option_list_references_in_products(d) ==
    IF ~CatalogReadable(d) \/ ~AllObjects(Entities(d, "optionLists")) THEN Raise
    ELSE LET option_list_names == TruthyNames(Entities(d, "optionLists"))
             Check(product, i) ==
                 IF ~product.obj \/ product.sku.t \notin {"absent", "dict"} THEN Raise
                 ELSE LET CheckRef(ref_name, j) ==
                              IF ref_name \notin option_list_names
                              THEN Unresolved("option_list_undefined_in_product", ref_name,
                                              FmtOr(product.name, TextQuestion),
                                              option_list_names)
                              ELSE Nothing
                      IN ForEach(SkuOf(product).optionListNames, CheckRef)
         IN ForEach(Entities(d, "products"), Check)

validate_category_references_in_deals(d) ==
    IF ~CatalogReadable(d) \/ ~AllObjects(Entities(d, "categories")) THEN Raise
    ELSE LET category_names == TruthyNames(Entities(d, "categories"))
             Check(deal, i) ==
                 IF ~deal.obj THEN Raise
                 ELSE IF Truthy(deal.categoryName)
                         /\ deal.categoryName \notin category_names
                      THEN Unresolved("category_undefined_in_deal", deal.categoryName,
                                      FmtOr(deal.name, TextQuestion), category_names)
                      ELSE Nothing
         IN ForEach(Entities(d, "deals"), Check)

TextParen == <<" ", "(">>

\* A list-valued member read with d.get(key, []) and looped over: a missing
\* member gives no pass; a null member raises, and so does a member that is
\* a text (t = "str", a text that is not empty), whose characters are not
\* objects.
Looped(member) == IF member.t = "absent" THEN <<>> ELSE member.v

validate_product_references_in_deals(d) ==
    IF ~CatalogReadable(d) \/ ~AllObjects(Entities(d, "products")) THEN Raise
    ELSE LET product_names == TruthyNames(Entities(d, "products"))
             Check(deal, i) ==
                 IF ~deal.obj \/ deal.lines.t \in {"null", "str"} THEN Raise
                 ELSE LET deal_name == FmtOr(deal.name, TextUnknown)
                          CheckLine(line, j) ==
                              IF ~line.obj \/ line.skus.t \in {"null", "str"} THEN Raise
                              ELSE LET CheckSku(sku, k) ==
                                           IF ~sku.obj THEN Raise
                                           ELSE LET sku_name == GetOr(sku.skuName, Str(<<>>))
                                                IN IF sku_name.t # "str" THEN Raise
                                                   ELSE LET product_name ==
                                                                Str(SplitFirst(sku_name.s, TextParen))
                                                        IN IF Truthy(product_name)
                                                              /\ product_name \notin product_names
                                                           THEN Unresolved("product_undefined_in_deal",
                                                                           product_name, deal_name,
                                                                           product_names)
                                                           ELSE Nothing
                                   IN ForEach(Looped(line.skus), CheckSku)
                      IN ForEach(Looped(deal.lines), CheckLine)
         IN ForEach(Entities(d, "deals"), Check)

TextDeal == <<"D","e","a","l">>

\* bool(price) for a price member.
PriceTruthy(price) ==
    \/ price.t = "num" /\ price.n # 0
    \/ price.t = "str"
    \/ price.t = "dict" /\ (price.amount.t # "absent" \/ price.currency.t # "absent")

\* 'amount' not in price or 'currency' not in price
PriceLacksKey(price) == price.amount.t = "absent" \/ price.currency.t = "absent"

\* The member is there, whatever it holds.
ListPresent(member) == member.t # "absent"

\* bool(member) of a member that holds a list, a text that is not empty,
\* null or nothing.
ListTruthy(member) == member.t = "str" \/ (member.t = "list" /\ member.v # <<>>)

validate_deal_structure(d) ==
    IF ~CatalogReadable(d) THEN Raise
    ELSE LET Check(deal, i) ==
                 IF ~deal.obj THEN Raise
                 ELSE LET deal_name == NameOrLabel(deal.name, TextDeal, i)
                          D(kind) == [Diag(kind) EXCEPT !.owner = deal_name]
                          name_check ==
                              IF ~Truthy(deal.name)
                              THEN Error([Diag("deal_name_required") EXCEPT !.nums = <<i>>])
                              ELSE Nothing
                          category_check ==
                              IF ~Truthy(deal.categoryName)
                              THEN Error(D("deal_categoryName_required")) ELSE Nothing
                          price_check ==
                              IF ~PriceTruthy(deal.price) THEN Error(D("deal_price_required"))
                              ELSE IF deal.price.t # "dict"
                                   THEN Error(D("deal_price_not_object"))
                              ELSE IF PriceLacksKey(deal.price)
                                   THEN Error(D("deal_price_missing_keys"))
                              ELSE Nothing
                          CheckLine(line, j) ==
                              IF ~line.obj THEN Raise
                              ELSE IF ~ListTruthy(line.skus)
                                   THEN Error([D("deal_skus_required") EXCEPT !.nums = <<j>>])
                              ELSE IF line.skus.t # "list"
                                   THEN Error([D("deal_skus_not_list") EXCEPT !.nums = <<j>>])
                              ELSE LET CheckSku(sku, k) ==
                                           IF ~sku.obj THEN Raise
                                           ELSE IF ~Truthy(sku.skuName)
                                                THEN Error([D("deal_skuName_required")
                                                              EXCEPT !.nums = <<j, k>>])
                                                ELSE Nothing
                                   IN ForEach(line.skus.v, CheckSku)
                          lines_check ==
                              IF ~ListTruthy(deal.lines) THEN Error(D("deal_lines_required"))
                              ELSE IF deal.lines.t # "list"
                                   THEN Error(D("deal_lines_not_list"))
                              ELSE ForEach(deal.lines.v, CheckLine)
                      IN InOrder(<<name_check, category_check, price_check, lines_check>>)
         IN ForEach(Entities(d, "deals"), Check)

validate_primary_categories_in_settings(d) ==
    IF ~CatalogReadable(d) THEN Raise
    ELSE LET settings == Field(d, "settings")
         IN IF settings.t \in {"absent", "null"} THEN Nothing
            ELSE IF ~AllObjects(Entities(d, "categories")) THEN Raise
            ELSE LET category_names == TruthyNames(Entities(d, "categories"))
                     Check(primary_category, i) ==
                         IF primary_category \notin category_names
                         THEN Unresolved("primary_category_undefined", primary_category,
                                         <<>>, category_names)
                         ELSE Nothing
                 IN ForEach(settings.primaryCategories, Check)

\* discount.get('discountData', {}): the members the validator reads.
EmptyList == [t |-> "absent", v |-> <<>>]

EmptyData ==
    [t |-> "dict", percentage |-> Absent, amount |-> Absent, productName |-> Absent,
     productId |-> Absent, productNames |-> EmptyList, productIds |-> EmptyList]

DataOf(discount) ==
    IF discount.discountData.t = "absent" THEN EmptyData ELSE discount.discountData

TextBogo == <<"b","o","g","o">>

TextFreeProduct == <<"f","r","e","e","_","p","r","o","d","u","c","t">>

TextPercentage == <<"p","e","r","c","e","n","t","a","g","e">>

TextFixed == <<"f","i","x","e","d">>

TextFreeShipping == <<"f","r","e","e","_","s","h","i","p","p","i","n","g">>

TextPushed == <<"p","u","s","h","e","d">>

TextPublic == <<"p","u","b","l","i","c">>

TextHidden == <<"h","i","d","d","e","n">>

validate_discount_product_references(d) ==
    IF ~CatalogReadable(d) \/ ~AllObjects(Entities(d, "products")) THEN Raise
    ELSE LET product_names == TruthyNames(Entities(d, "products"))
             Check(discount, i) ==
                 IF ~discount.obj THEN Raise
                 ELSE LET discount_name == FmtOr(discount.name, TextUnknown)
                          discount_type == discount.discountType
                          discount_data == DataOf(discount)
                          CheckName(product_name, j) ==
                              IF product_name \notin product_names
                              THEN Unresolved("product_undefined_in_bogo", product_name,
                                              discount_name, product_names)
                              ELSE Nothing
                          bogo ==
                              IF discount_type # Str(TextBogo) THEN Nothing
                              ELSE IF discount_data.t # "dict" THEN Raise
                              ELSE IF discount_data.productNames.t = "absent" THEN Nothing
                              ELSE IF discount_data.productNames.t # "list" THEN Raise
                              ELSE ForEach(discount_data.productNames.v, CheckName)
                          free_product ==
                              IF discount_type # Str(TextFreeProduct) THEN Nothing
                              ELSE IF discount_data.t # "dict" THEN Raise
                              ELSE IF discount_data.productName.t = "absent" THEN Nothing
                              ELSE IF Truthy(discount_data.productName)
                                      /\ discount_data.productName \notin product_names
                                   THEN Unresolved("product_undefined_in_discount",
                                                   discount_data.productName,
                                                   discount_name, product_names)
                              ELSE Nothing
                      IN Then(bogo, free_product)
         IN ForEach(Entities(d, "discounts"), Check)

valid_discount_types ==
    {Str(TextPercentage), Str(TextFixed), Str(TextFreeProduct), Str(TextBogo),
     Str(TextFreeShipping)}

valid_levels == {Str(TextPushed), Str(TextPublic), Str(TextHidden)}

TextDiscount == <<"D","i","s","c","o","u","n","t">>

PercentageMax == 100

validate_discount_structure(d) ==
    IF ~CatalogReadable(d) THEN Raise
    ELSE LET Check(discount, i) ==
                 IF ~discount.obj THEN Raise
                 ELSE LET discount_name == NameOrLabel(discount.name, TextDiscount, i)
                          D(kind) == [Diag(kind) EXCEPT !.owner = discount_name]
                          discount_type == discount.discountType
                          level == discount.level
                          discount_data == DataOf(discount)
                          name_check ==
                              IF ~Truthy(discount.name)
                              THEN Error([Diag("discount_name_required") EXCEPT !.nums = <<i>>])
                              ELSE Nothing
                          type_check ==
                              IF ~Truthy(discount_type) THEN Error(D("discountType_required"))
                              ELSE IF discount_type \notin valid_discount_types
                                   THEN Error([D("discountType_invalid")
                                                 EXCEPT !.val = Fmt(discount_type)])
                              ELSE Nothing
                          level_check ==
                              IF ~Truthy(level) THEN Error(D("level_required"))
                              ELSE IF level \notin valid_levels
                                   THEN Error([D("level_invalid") EXCEPT !.val = Fmt(level)])
                              ELSE Nothing
                          data_check ==
                              IF discount_type = Str(TextPercentage)
                              THEN IF discount_data.t # "dict" THEN Raise
                                   ELSE IF discount_data.percentage.t = "absent"
                                        THEN Error(D("percentage_required"))
                                   ELSE IF ~IsNumber(discount_data.percentage)
                                        THEN Error(D("percentage_not_number"))
                                   ELSE IF discount_data.percentage.n <= 0
                                           \/ discount_data.percentage.n > PercentageMax
                                        THEN Warning(D("percentage_out_of_range"))
                                   ELSE Nothing
                              ELSE IF discount_type = Str(TextFixed)
                              THEN IF discount_data.t # "dict" THEN Raise
                                   ELSE IF discount_data.amount.t = "absent"
                                        THEN Error(D("amount_required"))
                                   ELSE IF ~IsNumber(discount_data.amount)
                                        THEN Error(D("amount_not_number"))
                                   ELSE Nothing
                              ELSE IF discount_type = Str(TextFreeProduct)
                              THEN IF discount_data.t # "dict" THEN Raise
                                   ELSE IF discount_data.productName.t = "absent"
                                           /\ discount_data.productId.t = "absent"
                                        THEN Error(D("productName_required"))
                                   ELSE Nothing
                              ELSE IF discount_type = Str(TextBogo)
                              THEN IF discount_data.t # "dict" THEN Raise
                                   ELSE IF discount_data.productNames.t = "absent"
                                           /\ discount_data.productIds.t = "absent"
                                        THEN Error(D("productNames_required"))
                                   ELSE Nothing
                              ELSE Nothing
                      IN InOrder(<<name_check, type_check, level_check, data_check>>)
         IN ForEach(Entities(d, "discounts"), Check)

validate_category_structure(d) ==
    IF ~CatalogReadable(d) THEN Raise
    ELSE LET Check(cat, i) ==
                 IF ~cat.obj THEN Raise
                 ELSE IF ~Truthy(cat.name)
                      THEN Error([Diag("category_name_required") EXCEPT !.nums = <<i>>])
                      ELSE Nothing
         IN ForEach(Entities(d, "categories"), Check)

validate_option_list_structure(d) ==
    IF ~CatalogReadable(d) THEN Raise
    ELSE LET Check(ol, i) ==
                 IF ~ol.obj THEN Raise
                 ELSE IF ~Truthy(ol.name)
                      THEN Error([Diag("option_list_name_required") EXCEPT !.nums = <<i>>])
                      ELSE Nothing
         IN ForEach(Entities(d, "optionLists"), Check)

TextOption == <<"O","p","t","i","o","n">>

validate_option_structure(d) ==
    IF ~CatalogReadable(d) THEN Raise
    ELSE LET Check(opt, i) ==
                 IF ~opt.obj THEN Raise
                 ELSE LET opt_name == NameOrLabel(opt.name, TextOption, i)
                          D(kind) == [Diag(kind) EXCEPT !.owner = opt_name]
                      IN InOrder(<<
                           IF ~Truthy(opt.name)
                           THEN Error([Diag("option_name_required") EXCEPT !.nums = <<i>>])
                           ELSE Nothing,
                           IF ~Truthy(opt.optionListName)
                           THEN Error(D("option_optionListName_required")) ELSE Nothing,
                           IF opt.price.t \in {"absent", "null"}
                           THEN Error(D("option_price_required")) ELSE Nothing>>)
         IN ForEach(Entities(d, "options"), Check)

TextProduct == <<"P","r","o","d","u","c","t">>

\* bool(sku) for a sku member.
SkuTruthy(sku) ==
    \/ sku.t = "str"
    \/ sku.t = "dict" /\ (sku.price.t # "absent" \/ sku.optionListNames # <<>>)

validate_product_structure(d) ==
    IF ~CatalogReadable(d) THEN Raise
    ELSE LET Check(prod, i) ==
                 IF ~prod.obj THEN Raise
                 ELSE LET prod_name == NameOrLabel(prod.name, TextProduct, i)
                          D(kind) == [Diag(kind) EXCEPT !.owner = prod_name]
                      IN InOrder(<<
                           IF ~Truthy(prod.name)
                           THEN Error([Diag("product_name_required") EXCEPT !.nums = <<i>>])
                           ELSE Nothing,
                           IF ~Truthy(prod.categoryName)
                           THEN Error(D("product_categoryName_required")) ELSE Nothing,
                           IF ~SkuTruthy(prod.sku) THEN Error(D("product_sku_required"))
                           ELSE IF prod.sku.t # "dict" THEN Error(D("product_sku_not_object"))
                           ELSE Nothing>>)
         IN ForEach(Entities(d, "products"), Check)

\* [x.get(key) for x in items if x.get(key)]
RECURSIVE TruthyValues(_, _)
TruthyValues(items, key) ==
    IF items = <<>> THEN <<>>
    ELSE (IF Truthy(Head(items)[key]) THEN <<Head(items)[key]>> ELSE <<>>)
         \o TruthyValues(Tail(items), key)

\* One error for every value that occurs more than once, the first included.
check_duplicates_all(values, entity_type) ==
    LET Check(value, i) ==
            IF \E j \in 1..Len(values) : j # i /\ values[j] = value
            THEN Error([Diag(entity_type) EXCEPT !.val = Fmt(value)])
            ELSE Nothing
    IN ForEach(values, Check)

\* _check_duplicates: one error for every value that was seen before.
check_duplicates(values, entity_type) ==
    LET Check(value, i) ==
            IF \E j \in 1..(i - 1) : values[j] = value
            THEN Error([Diag(entity_type) EXCEPT !.val = Fmt(value)])
            ELSE Nothing
    IN ForEach(values, Check)

\* One list comprehension of _validate_uniqueness and its _check_duplicates.
UniqueIn(d, list, key, entity_type) ==
    IF ~AllObjects(Entities(d, list)) THEN Raise
    ELSE check_duplicates(TruthyValues(Entities(d, list), key), entity_type)

validate_uniqueness(d) ==
    IF ~CatalogReadable(d) THEN Raise
    ELSE InOrder(<<UniqueIn(d, "categories", "ref", "duplicate_category_ref"),
                   UniqueIn(d, "categories", "name", "duplicate_category_name"),
                   UniqueIn(d, "optionLists", "ref", "duplicate_option_list_ref"),
                   UniqueIn(d, "optionLists", "name", "duplicate_option_list_name"),
                   UniqueIn(d, "options", "ref", "duplicate_option_ref"),
                   UniqueIn(d, "products", "ref", "duplicate_product_ref")>>)

\* One loop of _validate_ref_format.
RefFormatIn(d, list, kind) ==
    LET Check(x, i) ==
            IF ~x.obj THEN Raise
            ELSE IF ~Truthy(x.ref) THEN Nothing
            ELSE IF x.ref.t # "str" THEN Raise
            ELSE IF ~REF_PATTERN(x.ref.s)
                 THEN Warning([Diag(kind) EXCEPT !.val = x.ref.s,
                                                 !.sugg = suggest_ref(x.ref.s)])
            ELSE Nothing
    IN ForEach(Entities(d, list), Check)

validate_ref_format(d) ==
    IF ~CatalogReadable(d) THEN Raise
    ELSE InOrder(<<RefFormatIn(d, "categories", "ref_format_category"),
                   RefFormatIn(d, "optionLists", "ref_format_option_list"),
                   RefFormatIn(d, "options", "ref_format_option"),
                   RefFormatIn(d, "products", "ref_format_product")>>)

\* 'not min_sel', where the code tests 'min_sel is not None'.
IsFalsy(v) == v.t \in {"absent", "null"} \/ (v.t = "num" /\ v.n = 0)

\* d.get(key): None for a missing member and for null.
IsNone(v) == v.t \in {"absent", "null"}

validate_option_list_selections(d) ==
    IF ~CatalogReadable(d) \/ ~AllObjects(Entities(d, "options")) THEN Raise
    ELSE LET options == Entities(d, "options")
             \* option_counts.get(ol_name, 0)
             option_count(ol_name) ==
                 Cardinality({i \in 1..Len(options) :
                                /\ Truthy(options[i].optionListName)
                                /\ options[i].optionListName = ol_name})
             Check(ol, i) ==
                 IF ~ol.obj THEN Raise
                 ELSE LET ol_name == GetOr(ol.name, Str(TextUnknown))
                          min_sel == ol.minSelections
                          max_sel == ol.maxSelections
                          D(kind) == [Diag(kind) EXCEPT !.owner = Fmt(ol_name)]
                          negative ==
                              IF IsNone(min_sel) THEN Nothing
                              ELSE IF ~IsNumber(min_sel) THEN Raise
                              ELSE IF min_sel.n < 0
                                   THEN Error([D("minSelections_negative")
                                                 EXCEPT !.nums = <<min_sel.n>>])
                              ELSE Nothing
                          ordered ==
                              IF IsNone(min_sel) \/ IsNone(max_sel) THEN Nothing
                              ELSE IF ~IsNumber(max_sel) THEN Raise
                              ELSE IF max_sel.n < min_sel.n
                                   THEN Error([D("maxSelections_below_min")
                                                 EXCEPT !.nums = <<max_sel.n, min_sel.n>>])
                              ELSE Nothing
                          enough ==
                              IF IsNone(min_sel) \/ min_sel.n <= 0 THEN Nothing
                              ELSE IF option_count(ol_name) < min_sel.n
                                   THEN Warning([D("too_few_options") EXCEPT
                                                   !.nums = <<min_sel.n, option_count(ol_name)>>])
                              ELSE Nothing
                      IN InOrder(<<negative, ordered, enough>>)
         IN ForEach(Entities(d, "optionLists"), Check)

(***************************************************************************)
(* Quality checks                                                          *)
(***************************************************************************)
\* A list that is shown whole, however long.
Whole(s, n) == s

\* names[:n]
Prefix(s, n) == SubSeq(s, 1, IF Len(s) < n THEN Len(s) ELSE n)

\* [x.get('name', 'Unknown') for x in items if not x.get('imageUrl')]
RECURSIVE NamesWithoutImage(_)
NamesWithoutImage(items) ==
    IF items = <<>> THEN <<>>
    ELSE (IF ~Truthy(Head(items).imageUrl)
          THEN <<GetOr(Head(items).name, Str(TextUnknown))>> ELSE <<>>)
         \o NamesWithoutImage(Tail(items))

AllStr(values) == \A i \in 1..Len(values) : values[i].t = "str"

RECURSIVE Texts(_)
Texts(values) == IF values = <<>> THEN <<>> ELSE <<Head(values).s>> \o Texts(Tail(values))

\* products_without_images[:5]
ShownMissingImages == 5

\* list(duplicates.items())[:3]
ShownSharedUrls == 3

\* prods[:3]
ShownSharingProducts == 3

\* url[-40:]
ShownUrlChars == 40

TextEllipsis == <<".", ".", ".">>

\* The (base_url, product name) pairs of the products that have an image.
RECURSIVE ImageEntries(_)
ImageEntries(products) ==
    IF products = <<>> THEN <<>>
    ELSE LET prod == Head(products)
             url == GetOr(prod.imageUrl, Str(<<>>))
         IN (IF Truthy(url)
             THEN <<[base |-> SplitFirst(url.s, <<"?">>),
                     name |-> GetOr(prod.name, Str(TextUnknown))]>>
             ELSE <<>>)
            \o ImageEntries(Tail(products))

\* The keys of url_to_products in insertion order.
RECURSIVE FirstSeen(_, _)
FirstSeen(entries, i) ==
    IF i > Len(entries) THEN <<>>
    ELSE (IF \E j \in 1..(i - 1) : entries[j].base = entries[i].base
          THEN <<>> ELSE <<entries[i].base>>)
         \o FirstSeen(entries, i + 1)

\* url_to_products[base]
RECURSIVE SharedBy(_, _)
SharedBy(entries, base) ==
    IF entries = <<>> THEN <<>>
    ELSE (IF Head(entries).base = base THEN <<Head(entries).name>> ELSE <<>>)
         \o SharedBy(Tail(entries), base)

RECURSIVE SumLen(_)
SumLen(ss) == IF ss = <<>> THEN 0 ELSE Len(Head(ss)) + SumLen(Tail(ss))

check_duplicate_image_urls(d) ==
    LET products == Entities(d, "products")
        \* url.split('?') needs a str
        splittable == \A i \in 1..Len(products) :
                         Truthy(products[i].imageUrl) => products[i].imageUrl.t = "str"
        entries == ImageEntries(products)
        bases == FirstSeen(entries, 1)
        duplicates == SelectSeq(bases, LAMBDA b : Len(SharedBy(entries, b)) > 1)
        groups == MapSeq(LAMBDA b, i : SharedBy(entries, b), duplicates, 1)
        summary == Warning([Diag("image_url_shared") EXCEPT
                              !.nums = <<Len(duplicates), SumLen(groups)>>])
        Show(url, i) ==
            LET prods == SharedBy(entries, url)
                short_url == IF Len(url) > ShownUrlChars
                             THEN TextEllipsis \o Drop(url, Len(url) - ShownUrlChars)
                             ELSE url
            IN IF ~AllStr(Prefix(prods, ShownSharingProducts)) THEN Raise
               ELSE Warning([Diag("image_url_shared_by") EXCEPT
                               !.val = short_url,
                               !.names = Texts(Prefix(prods, ShownSharingProducts)),
                               !.nums = <<Len(prods)>>])
    IN IF ~AllObjects(products) \/ ~splittable THEN Raise
       ELSE IF duplicates = <<>> THEN Nothing
       ELSE Then(summary, ForEach(Prefix(duplicates, ShownSharedUrls), Show))

\* A check that looks for shared image URLs only.
check_images_shared_only(d) ==
    IF ~CatalogReadable(d) THEN Raise ELSE check_duplicate_image_urls(d)

check_images(d) ==
    IF ~CatalogReadable(d) THEN Raise
    ELSE LET products == Entities(d, "products")
             options == Entities(d, "options")
             products_without_images == NamesWithoutImage(products)
             options_without_images == NamesWithoutImage(options)
             product_warning ==
                 IF ~AllObjects(products) THEN Raise
                 ELSE IF products_without_images = <<>> THEN Nothing
                 \* ', '.join raises on a name that is not a str
                 ELSE IF ~AllStr(Prefix(products_without_images, ShownMissingImages))
                      THEN Raise
                 ELSE Warning([Diag("products_without_image") EXCEPT
                                 !.nums = <<Len(products_without_images)>>,
                                 !.names = Texts(Prefix(products_without_images,
                                                        ShownMissingImages))])
             option_warning ==
                 IF ~AllObjects(options) THEN Raise
                 ELSE IF options_without_images = <<>> THEN Nothing
                 ELSE Warning([Diag("options_without_image") EXCEPT
                                 !.nums = <<Len(options_without_images)>>])
         IN InOrder(<<product_warning, option_warning, check_duplicate_image_urls(d)>>)

\* x.get(key) as a member of a set: a missing member and null are both None.
NoneOr(v) == IF v.t = "absent" THEN Null ELSE v

\* set(x.get(key) for x in items)
ValueSet(items, key) == {NoneOr(items[i][key]) : i \in 1..Len(items)}

\* category_names, with no name taken away.
all_categories(d) ==
    IF ~AllObjects(Entities(d, "categories")) \/ ~AllObjects(Entities(d, "products"))
    THEN {}
    ELSE ValueSet(Entities(d, "categories"), "name")

\* category_names - used_categories (no set is built when the group raises)
empty_categories(d) ==
    IF ~AllObjects(Entities(d, "categories")) \/ ~AllObjects(Entities(d, "products"))
    THEN {}
    ELSE ValueSet(Entities(d, "categories"), "name")
            \ ValueSet(Entities(d, "products"), "categoryName")

\* option_list_names - used_option_lists
empty_option_lists(d) ==
    IF ~AllObjects(Entities(d, "optionLists")) \/ ~AllObjects(Entities(d, "options"))
    THEN {}
    ELSE ValueSet(Entities(d, "optionLists"), "name")
            \ ValueSet(Entities(d, "options"), "optionListName")

\* The orders in which a for loop may visit the members of a set.
Orders(S) ==
    {o \in [1..Cardinality(S) -> S] : \A i, j \in 1..Cardinality(S) : o[i] = o[j] => i = j}

\* cat_order and ol_order are the orders in which the two sets are iterated.
check_empty_entities(d, cat_order, ol_order) ==
    IF ~CatalogReadable(d) THEN Raise
    ELSE LET WarnCategory(cat_name, i) ==
                 Warning([Diag("category_empty") EXCEPT !.val = Fmt(cat_name)])
             WarnOptionList(ol_name, i) ==
                 Warning([Diag("option_list_empty") EXCEPT !.val = Fmt(ol_name)])
         IN InOrder(<<
              IF ~AllObjects(Entities(d, "categories")) \/ ~AllObjects(Entities(d, "products"))
              THEN Raise ELSE ForEach(cat_order, WarnCategory),
              IF ~AllObjects(Entities(d, "optionLists")) \/ ~AllObjects(Entities(d, "options"))
              THEN Raise ELSE ForEach(ol_order, WarnOptionList)>>)

\* One price of _check_price_format.
PriceFormat(price, owner, not_object, missing_keys) ==
    IF price.t \in {"absent", "null"} THEN Nothing
    ELSE IF price.t # "dict" THEN Error([Diag(not_object) EXCEPT !.owner = owner])
    ELSE IF PriceLacksKey(price) THEN Error([Diag(missing_keys) EXCEPT !.owner = owner])
    ELSE Nothing

check_price_format(d) ==
    IF ~CatalogReadable(d) THEN Raise
    ELSE LET CheckProduct(prod, i) ==
                 IF ~prod.obj \/ prod.sku.t \notin {"absent", "dict"} THEN Raise
                 ELSE PriceFormat(SkuOf(prod).price, Fmt(prod.name),
                                  "product_price_not_object", "product_price_missing_keys")
             CheckOption(opt, i) ==
                 IF ~opt.obj THEN Raise
                 ELSE PriceFormat(opt.price, Fmt(opt.name),
                                  "option_price_not_object", "option_price_missing_keys")
         IN Then(ForEach(Entities(d, "products"), CheckProduct),
                 ForEach(Entities(d, "options"), CheckOption))

\* A verdict that counts a warning as a defect.
VerdictStrict(errs, warns) ==
    IF errs # <<>> \/ warns # <<>> THEN "INVALID" ELSE "VALID"

\* The last line of the report.
Verdict(errs, warns) ==
    IF errs # <<>> THEN "INVALID"
    ELSE IF warns # <<>> THEN "VALID (with warnings)"
    ELSE "VALID"

(***************************************************************************)
(* print_report                                                            *)
(***************************************************************************)
\* A report that shows the first 5 errors and the first 10 warnings.
print_report_heads(d, errs, warns) ==
    [name |-> FmtOr(Field(d, "name"), TextUnknown),
     counts |-> <<Len(Entities(d, "categories")), Len(Entities(d, "products")),
                  Len(Entities(d, "optionLists")), Len(Entities(d, "options")),
                  Len(Entities(d, "deals")), Len(Entities(d, "discounts"))>>,
     n_errors |-> Len(errs),
     errors |-> SubSeq(errs, 1, IF Len(errs) < 5 THEN Len(errs) ELSE 5),
     n_warnings |-> Len(warns),
     warnings |-> SubSeq(warns, 1, IF Len(warns) < 10 THEN Len(warns) ELSE 10),
     verdict |-> Verdict(errs, warns)]

\* What print_report prints: the catalog name, the six counts, the ERRORS and
\* WARNINGS sections (the count in the heading and the lines below it) and the
\* verdict.  It raises when the 'catalog' member is not a dict.
print_report(d, errs, warns) ==
    [name |-> FmtOr(Field(d, "name"), TextUnknown),
     counts |-> <<Len(Entities(d, "categories")), Len(Entities(d, "products")),
                  Len(Entities(d, "optionLists")), Len(Entities(d, "options")),
                  Len(Entities(d, "deals")), Len(Entities(d, "discounts"))>>,
     n_errors |-> Len(errs),
     errors |-> errs,
     n_warnings |-> Len(warns),
     warnings |-> warns,
     verdict |-> Verdict(errs, warns)]

(***************************************************************************)
(* main(): the state of one run                                            *)
(***************************************************************************)
VARIABLES
    argv,       \* whether sys.argv holds a path
    file,       \* what is at the path: "missing", "invalid_json", "not_utf8", "json"
    doc,        \* the document json.load returns
    pc,         \* the statement of main() or validate() to run next
    errors,     \* validator.errors
    warnings,   \* validator.warnings
    is_valid,   \* what validate() returned: "none" before it returns
    report,     \* what print_report printed: <<>> before it returns
    exit_code,  \* the exit status of the process: -1 while it runs
    calls       \* how many calls of validate() on the validator have begun

vars == <<argv, file, doc, pc, errors, warnings, is_valid, report, exit_code, calls>>

\* The calls of validate() after the root check, in order.
GroupOrder ==
    <<"validate_catalog_name",
      "validate_option_list_references_in_options",
      "validate_category_references_in_products",
      "validate_option_list_references_in_products",
      "validate_category_references_in_deals",
      "validate_product_references_in_deals",
      "validate_deal_structure",
      "validate_primary_categories_in_settings",
      "validate_discount_product_references",
      "validate_discount_structure",
      "validate_category_structure",
      "validate_option_list_structure",
      "validate_option_structure",
      "validate_product_structure",
      "validate_uniqueness",
      "validate_ref_format",
      "validate_option_list_selections",
      "check_images",
      "check_empty_entities",
      "check_price_format">>

\* The statement after the call of a rule group.
After(group) ==
    LET i == IndexOf(group, GroupOrder)
    IN IF i < Len(GroupOrder) THEN GroupOrder[i + 1] ELSE "return"

\* sys.exit(status)
Exit(status) ==
    /\ exit_code' = status
    /\ pc' = "exited"

\* if len(sys.argv) < 2: sys.exit(2)
main_args ==
    /\ pc = "main"
    /\ IF argv THEN pc' = "exists" /\ exit_code' = exit_code ELSE Exit(2)
    /\ UNCHANGED <<calls, argv, file, doc, errors, warnings, is_valid, report>>

\* if not Path(path).exists(): sys.exit(2)
main_exists ==
    /\ pc = "exists"
    /\ IF file = "missing" THEN Exit(2) ELSE pc' = "load" /\ exit_code' = exit_code
    /\ UNCHANGED <<calls, argv, file, doc, errors, warnings, is_valid, report>>

\* json.load: only json.JSONDecodeError is caught.  Then the validator is
\* constructed, with no errors and no warnings.
main_load ==
    /\ pc = "load"
    /\ IF file = "invalid_json" THEN Exit(2)
       ELSE /\ pc' = IF file = "not_utf8" THEN "uncaught" ELSE "validate_root_structure"
            /\ exit_code' = exit_code
    /\ errors' = <<>>
    /\ warnings' = <<>>
    /\ UNCHANGED <<calls, argv, file, doc, is_valid, report>>

\* self._validate_root_structure(); if self.errors: return False
validate_root ==
    /\ pc = "validate_root_structure"
    /\ LET r == validate_root_structure(doc)
       IN /\ errors' = errors \o r.e
          /\ warnings' = warnings \o r.w
          /\ pc' = IF r.raised THEN "uncaught"
                   ELSE IF errors' # <<>> THEN "print_report"
                   ELSE GroupOrder[1]
          /\ is_valid' = IF ~r.raised /\ errors' # <<>> THEN "False" ELSE is_valid
    /\ calls' = calls + 1
    /\ UNCHANGED <<argv, file, doc, report, exit_code>>

\* One call of a rule group by validate(): r is what the group does.
Call(group, r) ==
    /\ pc = group
    /\ errors' = errors \o r.e
    /\ warnings' = warnings \o r.w
    /\ pc' = IF r.raised THEN "uncaught" ELSE After(group)
    /\ UNCHANGED <<calls, argv, file, doc, is_valid, report, exit_code>>

call_validate_catalog_name ==
    Call("validate_catalog_name", validate_catalog_name(doc))

call_validate_option_list_references_in_options ==
    Call("validate_option_list_references_in_options",
         validate_option_list_references_in_options(doc))

call_validate_category_references_in_products ==
    Call("validate_category_references_in_products",
         validate_category_references_in_products(doc))

call_validate_option_list_references_in_products ==
    Call("validate_option_list_references_in_products",
         validate_option_list_references_in_products(doc))

call_validate_category_references_in_deals ==
    Call("validate_category_references_in_deals",
         validate_category_references_in_deals(doc))

call_validate_product_references_in_deals ==
    Call("validate_product_references_in_deals",
         validate_product_references_in_deals(doc))

call_validate_deal_structure ==
    Call("validate_deal_structure", validate_deal_structure(doc))

call_validate_primary_categories_in_settings ==
    Call("validate_primary_categories_in_settings",
         validate_primary_categories_in_settings(doc))

call_validate_discount_product_references ==
    Call("validate_discount_product_references",
         validate_discount_product_references(doc))

call_validate_discount_structure ==
    Call("validate_discount_structure", validate_discount_structure(doc))

call_validate_category_structure ==
    Call("validate_category_structure", validate_category_structure(doc))

call_validate_option_list_structure ==
    Call("validate_option_list_structure", validate_option_list_structure(doc))

call_validate_option_structure ==
    Call("validate_option_structure", validate_option_structure(doc))

call_validate_product_structure ==
    Call("validate_product_structure", validate_product_structure(doc))

call_validate_uniqueness ==
    Call("validate_uniqueness", validate_uniqueness(doc))

call_validate_ref_format ==
    Call("validate_ref_format", validate_ref_format(doc))

call_validate_option_list_selections ==
    Call("validate_option_list_selections", validate_option_list_selections(doc))

call_check_images ==
    Call("check_images", check_images(doc))

\* The two sets are iterated in an order that the hash seed of the process
\* decides.
call_check_empty_entities ==
    /\ pc = "check_empty_entities"
    /\ \E cat_order \in Orders(empty_categories(doc)),
          ol_order \in Orders(empty_option_lists(doc)) :
           Call("check_empty_entities", check_empty_entities(doc, cat_order, ol_order))

call_check_price_format ==
    Call("check_price_format", check_price_format(doc))

\* return len(self.errors) == 0
validate_return ==
    /\ pc = "return"
    /\ is_valid' = IF Len(errors) = 0 THEN "True" ELSE "False"
    /\ pc' = "print_report"
    /\ UNCHANGED <<calls, argv, file, doc, errors, warnings, report, exit_code>>

\* print_report(validator, catalog_json)
main_report ==
    /\ pc = "print_report"
    /\ IF CatalogReadable(doc)
       THEN /\ report' = <<print_report(doc, errors, warnings)>>
            /\ pc' = "exit"
       ELSE /\ report' = report
            /\ pc' = "uncaught"
    /\ UNCHANGED <<calls, argv, file, doc, errors, warnings, is_valid, exit_code>>

\* sys.exit(0 if is_valid else 1)
main_exit ==
    /\ pc = "exit"
    /\ Exit(IF is_valid = "True" THEN 0 ELSE 1)
    /\ UNCHANGED <<calls, argv, file, doc, errors, warnings, is_valid, report>>

\* An exception that nothing catches ends the interpreter with status 1.
main_uncaught ==
    /\ pc = "uncaught"
    /\ Exit(1)
    /\ UNCHANGED <<calls, argv, file, doc, errors, warnings, is_valid, report>>

Next ==
    \/ main_args
    \/ main_exists
    \/ main_load
    \/ validate_root
    \/ call_validate_catalog_name
    \/ call_validate_option_list_references_in_options
    \/ call_validate_category_references_in_products
    \/ call_validate_option_list_references_in_products
    \/ call_validate_category_references_in_deals
    \/ call_validate_product_references_in_deals
    \/ call_validate_deal_structure
    \/ call_validate_primary_categories_in_settings
    \/ call_validate_discount_product_references
    \/ call_validate_discount_structure
    \/ call_validate_category_structure
    \/ call_validate_option_list_structure
    \/ call_validate_option_structure
    \/ call_validate_product_structure
    \/ call_validate_uniqueness
    \/ call_validate_ref_format
    \/ call_validate_option_list_selections
    \/ call_check_images
    \/ call_check_empty_entities
    \/ call_check_price_format
    \/ validate_return
    \/ main_report
    \/ main_exit
    \/ main_uncaught

(***************************************************************************)
(* The input files of the model                                            *)
(***************************************************************************)
Pizzas == <<"P","i","z","z","a","s">>

Pizzza == <<"P","i","z","z","z","a">>

Pizza == <<"P","i","z","z","a">>

PIZZAS == <<"P","I","Z","Z","A","S">>

Margherita == <<"M","a","r","g","h","e","r","i","t","a">>

MargheritaTwice ==
    <<"M","a","r","g","h","e","r","i","t","a"," ","(","a",")"," ","(","b",")">>

MargheritaNoSpace == <<"M","a","r","g","h","e","r","i","t","a","(","b",")">>

MargheritaLarge == <<"M","a","r","g","h","e","r","i","t","a"," ","(","l","a","r","g","e",")">>

ParenOnly == <<" ","(","l","a","r","g","e",")">>

Marinara == <<"M","a","r","i","n","a","r","a">>

Sauces == <<"S","a","u","c","e","s">>

Sauce == <<"S","a","u","c","e">>

Ketchup == <<"K","e","t","c","h","u","p">>

Menu == <<"M","e","n","u">>

Promo == <<"P","r","o","m","o">>

Soldes == <<"S","o","l","d","e","s">>

EUR == <<"E","U","R">>

ChezLuigi == <<"C","h","e","z"," ","L","u","i","g","i">>

Xy == <<"X","y">>

MainCoursesSpaced == <<"M","a","i","n"," ","C","o","u","r","s","e","s">>

mainCourses == <<"m","a","i","n","C","o","u","r","s","e","s">>

MAIN_COURSES == <<"M","A","I","N","_","C","O","U","R","S","E","S">>

RefA == <<"A">>

RefB == <<"B">>

RefLineEnd == <<"A","B","\n">>

RefDigitFirst == <<"1","s","t">>

RefKebab == <<"p","i","z","z","a","-","t","o","p","p","i","n","g","s">>

RefSymbols == <<"!","?">>

RefTrailing == <<"A","_">>

UrlXA == <<"h","t","t","p","s",":","/","/","c","d","n","/","x",".","j","p","g","?","a","=","1">>

UrlXB == <<"h","t","t","p","s",":","/","/","c","d","n","/","x",".","j","p","g","?","b","=","2">>

UrlX == <<"h","t","t","p","s",":","/","/","c","d","n","/","x",".","j","p","g">>

UrlY == <<"h","t","t","p","s",":","/","/","c","d","n","/","y",".","j","p","g">>

UrlHttp == <<"h","t","t","p",":","/","/","c","d","n","/","z",".","j","p","g">>

UrlFtp == <<"f","t","p",":","/","/","c","d","n","/","x",".","j","p","g">>

UrlBare == <<"c","d","n","/","w",".","j","p","g">>

UrlQuery == <<"?","a","=","1">>

\* A base URL of more than 40 characters.
UrlLong == <<"h","t","t","p","s",":","/","/","c","d","n",".","e","x","a","m","p","l","e",".","c","o","m","/","i","m","a","g","e","s","/","m","e","n","u","/","p","i","z","z","a","/","l","a","r","g","e",".","j","p","g">>

Napoli == <<"N","a","p","o","l","i">>

Regina == <<"R","e","g","i","n","a">>

Calzone == <<"C","a","l","z","o","n","e">>

Diavola == <<"D","i","a","v","o","l","a">>

Romana == <<"R","o","m","a","n","a">>

Bufala == <<"B","u","f","a","l","a">>

TextTen == <<"1","0">>

TextYes == <<"y","e","s">>

Category(name, ref) == [obj |-> TRUE, name |-> name, ref |-> ref]

OptionList(name, ref, minSelections, maxSelections) ==
    [obj |-> TRUE, name |-> name, ref |-> ref,
     minSelections |-> minSelections, maxSelections |-> maxSelections]

Price(amount, currency) ==
    [t |-> "dict", n |-> 0, amount |-> amount, currency |-> currency]

Option(name, ref, optionListName) ==
    [obj |-> TRUE, name |-> name, ref |-> ref, optionListName |-> optionListName,
     price |-> Price(Num(1), Str(EUR)), available |-> Bool(TRUE), imageUrl |-> Absent]

Sku(price, optionListNames) ==
    [t |-> "dict", price |-> price, optionListNames |-> optionListNames]

Product(name, ref, categoryName, optionListNames) ==
    [obj |-> TRUE, name |-> name, ref |-> ref, categoryName |-> categoryName,
     available |-> Bool(TRUE), imageUrl |-> Absent,
     sku |-> Sku(Price(Num(10), Str(EUR)), optionListNames)]

List(v) == [t |-> "list", v |-> v]

DealSku(skuName) == [obj |-> TRUE, skuName |-> skuName]

Line(skus) == [obj |-> TRUE, skus |-> List(skus)]

Deal(name, categoryName, lines) ==
    [obj |-> TRUE, name |-> name, categoryName |-> categoryName,
     price |-> Price(Num(15), Str(EUR)), lines |-> List(lines)]

Discount(name, discountType, level, discountData) ==
    [obj |-> TRUE, name |-> name, discountType |-> discountType, level |-> level,
     discountData |-> discountData]

Settings(primaryCategories) == [t |-> "dict", primaryCategories |-> primaryCategories]

\* The catalog of the end-to-end example: one category and one product.
Margherita10 == Product(Str(Margherita), Absent, Str(Pizzas), <<>>)

MinimalCatalog ==
    [top |-> "dict", catalog |-> "dict", catalog_str |-> <<>>,
     keys |-> {"name", "categories", "products"},
     name |-> Str(ChezLuigi), settings |-> Absent,
     categories |-> <<Category(Str(Pizzas), Str(PIZZAS))>>,
     optionLists |-> <<>>, options |-> <<>>,
     products |-> <<Margherita10>>,
     deals |-> <<>>, discounts |-> <<>>]

\* d with catalog[key] = value
With(d, key, value) == [d EXCEPT ![key] = value, !.keys = @ \cup {key}]

\* The sequences over S of length at most n, as tuples.
RECURSIVE SeqsUpTo(_, _)
SeqsUpTo(S, n) ==
    IF n = 0 THEN {<<>>}
    ELSE LET shorter == SeqsUpTo(S, n - 1)
         IN shorter \cup {Append(q, x) : q \in {r \in shorter : Len(r) = n - 1}, x \in S}

\* The longest list of entities of one kind in an input file.
MaxEntities == 2

\* The most entities of one kind that repeat a ref or a name, or that have or
\* lack an image.
MaxRepeats == 3

\* The largest minSelections and maxSelections of an input file.
MaxSelections == 2

\* [F(x) for x in items]
Each(items, F(_)) == MapSeq(LAMBDA x, i : F(x), items, 1)

Empty == Str(<<>>)

\* The 'catalog' member is missing, falsy, or not an object; or the file
\* holds a JSON value that is not an object.
RootDocs ==
    {[MinimalCatalog EXCEPT !.catalog = "absent", !.keys = {}],
     [MinimalCatalog EXCEPT !.catalog = "null", !.keys = {}],
     [MinimalCatalog EXCEPT !.catalog = "dict", !.keys = {}],
     [MinimalCatalog EXCEPT !.catalog = "str", !.keys = {}],
     [MinimalCatalog EXCEPT !.catalog = "str", !.keys = {}, !.catalog_str = Menu],
     [MinimalCatalog EXCEPT !.top = "list", !.catalog = "absent", !.keys = {}],
     MinimalCatalog}

\* Products that name their category, in catalogs that declare categories.
ProductCategoryDocs ==
    {With(With(MinimalCatalog,
          "categories", Each(names, LAMBDA n : Category(n, Absent))),
          "products", Each(refs, LAMBDA r : Product(Str(Margherita), Absent, r, <<>>))) :
       names \in SeqsUpTo({Str(Pizzas), Str(Pizza)}, MaxEntities),
       refs \in SeqsUpTo({Str(Pizzas), Str(Pizza), Str(Pizzza), Str(Xy), Empty},
                         MaxEntities)}

\* Options that name their option list.
OptionListDocs ==
    {With(With(MinimalCatalog,
          "optionLists", Each(names, LAMBDA n : OptionList(n, Absent, Absent, Absent))),
          "options", Each(refs, LAMBDA r : Option(Str(Ketchup), Absent, r))) :
       names \in SeqsUpTo({Str(Sauces), Empty}, MaxEntities),
       refs \in SeqsUpTo({Str(Sauces), Str(Sauce), Empty}, MaxEntities)}

\* A product whose sku names option lists.
SkuOptionListDocs ==
    {With(With(MinimalCatalog,
          "optionLists", Each(names, LAMBDA n : OptionList(n, Absent, Absent, Absent))),
          "products", <<Product(Str(Margherita), Absent, Str(Pizzas), refs)>>) :
       names \in SeqsUpTo({Str(Sauces), Empty}, MaxEntities),
       refs \in SeqsUpTo({Str(Sauces), Str(Sauce), Empty}, MaxEntities)}

\* Deals that name their category.
DealCategoryDocs ==
    {With(With(MinimalCatalog,
          "categories", Each(names, LAMBDA n : Category(n, Absent))),
          "deals", Each(refs, LAMBDA r :
                          Deal(Str(Promo), r, <<Line(<<DealSku(Str(Margherita))>>)>>))) :
       names \in SeqsUpTo({Str(Pizzas), Empty}, MaxEntities),
       refs \in SeqsUpTo({Str(Pizzas), Str(Pizzza), Empty}, MaxEntities)}

\* A deal whose skus name products.
DealSkuDocs ==
    {With(With(MinimalCatalog,
          "products", Each(names, LAMBDA n : Product(n, Absent, Str(Pizzas), <<>>))),
          "deals", <<Deal(Str(Promo), Str(Pizzas),
                          <<Line(Each(refs, LAMBDA r : DealSku(r)))>>)>>) :
       names \in SeqsUpTo({Str(Margherita), Empty}, MaxEntities),
       refs \in SeqsUpTo({Str(Margherita), Str(MargheritaLarge), Str(ParenOnly),
                          Str(Marinara)}, MaxEntities)}

\* A bogo or a free_product discount that names products.
DiscountDocs ==
    {With(With(MinimalCatalog,
          "products", Each(names, LAMBDA n : Product(n, Absent, Str(Pizzas), <<>>))),
          "discounts", <<Discount(Str(Promo), Str(TextBogo), Str(TextPublic),
                                  [EmptyData EXCEPT !.productNames = List(refs)])>>) :
       names \in SeqsUpTo({Str(Margherita), Empty}, MaxEntities),
       refs \in SeqsUpTo({Str(Margherita), Str(Marinara), Empty}, MaxEntities)}
    \cup
    {With(With(MinimalCatalog,
          "products", Each(names, LAMBDA n : Product(n, Absent, Str(Pizzas), <<>>))),
          "discounts", <<Discount(Str(Promo), Str(TextFreeProduct), Str(TextPublic),
                                  [EmptyData EXCEPT !.productName = r])>>) :
       names \in SeqsUpTo({Str(Margherita), Empty}, MaxEntities),
       r \in {Str(Margherita), Str(Marinara), Empty}}

\* Settings that name primary categories.
SettingsDocs ==
    {With(With(MinimalCatalog,
          "categories", Each(names, LAMBDA n : Category(n, Absent))),
          "settings", Settings(refs)) :
       names \in SeqsUpTo({Str(Pizzas), Empty}, MaxEntities),
       refs \in SeqsUpTo({Str(Pizzas), Str(Pizzza), Empty}, MaxEntities)}

\* The refs and names of entities that repeat them, or have none.
RepeatValues == {Absent, Empty, Str(RefA), Str(RefB)}

RepeatDocs ==
    LET values == SeqsUpTo(RepeatValues, MaxRepeats)
                    \cup {<<Null, Null>>, <<Null, Str(RefA), Null, Str(RefA)>>}
    IN {With(MinimalCatalog, "categories", Each(v, LAMBDA x : Category(Str(Pizzas), x))) :
          v \in values}
       \cup
       {With(MinimalCatalog, "categories", Each(v, LAMBDA x : Category(x, Absent))) :
          v \in values}
       \cup
       {With(MinimalCatalog, "optionLists",
             Each(v, LAMBDA x : OptionList(Str(Sauces), x, Absent, Absent))) : v \in values}
       \cup
       {With(MinimalCatalog, "optionLists",
             Each(v, LAMBDA x : OptionList(x, Absent, Absent, Absent))) : v \in values}
       \cup
       {With(With(MinimalCatalog,
             "optionLists", <<OptionList(Str(Sauces), Absent, Absent, Absent)>>),
             "options", Each(v, LAMBDA x : Option(Str(Ketchup), x, Str(Sauces)))) :
          v \in values}
       \cup
       {With(MinimalCatalog, "products",
             Each(v, LAMBDA x : Product(Str(Margherita), x, Str(Pizzas), <<>>))) :
          v \in values}

\* The refs whose format is checked.
RefTexts ==
    {MainCoursesSpaced, mainCourses, MAIN_COURSES, RefA, RefLineEnd, RefDigitFirst,
     RefKebab, RefSymbols, RefTrailing, <<>>}

\* The characters of the short refs, and their greatest length.
RefAlphabet == {"a", "B", "1", "-", "_", " "}

MaxRefLen == 3

\* A catalog that is valid but for the format of one ref.
SingleRefDocs ==
    {With(MinimalCatalog, "categories", <<Category(Str(Pizzas), Str(r))>>) :
       r \in RefTexts \cup SeqsUpTo(RefAlphabet, MaxRefLen)}
    \cup
    {With(MinimalCatalog, "optionLists",
          <<OptionList(Str(Sauces), Str(r), Absent, Absent)>>) : r \in RefTexts}
    \cup
    {With(With(MinimalCatalog,
          "optionLists", <<OptionList(Str(Sauces), Absent, Absent, Absent)>>),
          "options", <<Option(Str(Ketchup), Str(r), Str(Sauces))>>) : r \in RefTexts}
    \cup
    {With(MinimalCatalog, "products",
          <<Product(Str(Margherita), Str(r), Str(Pizzas), <<>>)>>) : r \in RefTexts}

RefFormatDocs ==
    SingleRefDocs
    \cup
    {With(MinimalCatalog, "categories", Each(rs, LAMBDA r : Category(Str(Pizzas), r))) :
       rs \in SeqsUpTo({Str(MAIN_COURSES), Str(mainCourses), Str(MainCoursesSpaced),
                        Str(RefKebab), Null}, MaxEntities)}

\* Option lists with selection bounds, and the options that point at them.
SelectionValues == {Absent, Null} \cup {Num(n) : n \in -1..MaxSelections}

SelectionDocs ==
    {With(With(MinimalCatalog,
          "optionLists", <<OptionList(Str(Sauces), Absent, min, max)>> \o more),
          "options", [i \in 1..n |-> Option(Str(Ketchup), Absent, Str(Sauces))]) :
       min \in SelectionValues, max \in SelectionValues, n \in 0..MaxEntities,
       more \in {<<>>, <<OptionList(Str(Menu), Absent, Num(2), Num(1))>>}}

\* Prices of a product, an option and a deal: the amount is negative, zero,
\* small, 500, above 500, a text, null or missing, the currency a text, a
\* number, null or missing; or the price is not an object.
PriceValues ==
    {Price(amount, currency) :
       amount \in {Num(-1), Num(0), Num(10), Num(500), Num(501), Str(TextTen), Null, Absent},
       currency \in {Str(EUR), Num(1), Null, Absent}}
    \cup {[NoPrice EXCEPT !.t = "num", !.n = 5], [NoPrice EXCEPT !.t = "str"]}

PriceDocs ==
    {With(MinimalCatalog, "products", <<[Margherita10 EXCEPT !.sku.price = p]>>) :
       p \in PriceValues}
    \cup
    {With(With(MinimalCatalog,
          "optionLists", <<OptionList(Str(Sauces), Absent, Absent, Absent)>>),
          "options", <<[Option(Str(Ketchup), Absent, Str(Sauces)) EXCEPT !.price = p]>>) :
       p \in PriceValues}
    \cup
    {With(MinimalCatalog, "deals",
          <<[Deal(Str(Promo), Str(Pizzas), <<Line(<<DealSku(Str(Margherita))>>)>>)
               EXCEPT !.price = p]>>) : p \in PriceValues}

\* The names of the products that have an image.
DishNames == <<Margherita, Marinara, Napoli, Regina, Calzone, Diavola, Romana, Bufala>>

\* The products of a catalog, one for each imageUrl of urls.
Pictured(urls) ==
    With(MinimalCatalog, "products",
         [i \in 1..Len(urls) |->
            [Product(Str(DishNames[((i - 1) % Len(DishNames)) + 1]), Absent, Str(Pizzas), <<>>)
               EXCEPT !.imageUrl = urls[i]]])

ImageValues == {Absent, Str(UrlXA), Str(UrlXB), Str(UrlY)}

\* Products with and without an image; products that share a base URL; more
\* shared URLs, more products on one URL and more products without an image
\* than a warning shows.
ImageDocs ==
    {Pictured(urls) : urls \in SeqsUpTo(ImageValues, MaxRepeats)}
    \cup
    {Pictured(urls) : urls \in
       {<<Str(UrlXA), Str(UrlXB), Str(UrlY), Str(UrlY), Str(UrlHttp), Str(UrlHttp)>>,
        <<Str(UrlXA), Str(UrlXB), Str(UrlY), Str(UrlY), Str(UrlHttp), Str(UrlHttp),
          Str(UrlLong), Str(UrlLong)>>,
        <<Str(UrlXA), Str(UrlXB), Str(UrlX), Str(UrlXA), Str(UrlXB)>>,
        <<Str(UrlLong), Str(UrlY), Str(UrlLong)>>,
        <<Absent, Absent, Absent, Absent, Absent, Absent>>,
        <<Empty>>, <<Null, Str(UrlHttp)>>, <<Str(UrlBare)>>, <<Str(UrlFtp)>>,
        <<Str(UrlFtp), Absent>>, <<Str(UrlXA), Str(UrlFtp), Str(UrlXB)>>,
        <<Str(UrlQuery), Str(UrlQuery)>>}}

\* Products and options whose 'available' member is missing or is not a
\* boolean.
AvailableValues == {Absent, Null, Str(TextYes), Bool(FALSE), Bool(TRUE)}

AvailabilityDocs ==
    {With(MinimalCatalog, "products", <<[Margherita10 EXCEPT !.available = a]>>) :
       a \in AvailableValues}
    \cup
    {With(With(MinimalCatalog,
          "optionLists", <<OptionList(Str(Sauces), Str(Sauces), Absent, Absent)>>),
          "options", <<[Option(Str(Ketchup), r, Str(Sauces)) EXCEPT !.available = a]>>) :
       a \in AvailableValues, r \in {Absent, Str(RefA)}}

\* A catalog with more errors and more warnings than a short list holds:
\* eleven categories with the same name and the same malformed ref, and four
\* pairs of products that share an image.
ManyDiagnosticsDocs ==
    {With(Pictured(<<Str(UrlXA), Str(UrlXB), Str(UrlY), Str(UrlY), Str(UrlHttp),
                     Str(UrlHttp), Str(UrlLong), Str(UrlLong)>>),
          "categories", [i \in 1..11 |-> Category(Str(Pizzas), Str(<<"a">>))])}

\* An entry of an entity list that is not an object.
NotAnObject == [obj |-> FALSE]

\* Files that parse and whose members have the wrong type.
WrongTypeDocs ==
    {With(MinimalCatalog, "name", Null),
     With(MinimalCatalog, "name", Num(1)),
     With(MinimalCatalog, "categories", <<NotAnObject>>),
     With(MinimalCatalog, "optionLists",
          <<OptionList(Str(Sauces), Absent, Str(<<"2">>), Absent)>>),
     With(MinimalCatalog, "products",
          <<[Margherita10 EXCEPT !.sku = [EmptySku EXCEPT !.t = "null"]]>>),
     With(MinimalCatalog, "discounts",
          <<Discount(Str(Promo), Str(TextPercentage), Str(TextPublic),
                     [EmptyData EXCEPT !.t = "null"])>>)}

\* The percentages of percentage discounts: none, null, a text, true and
\* false, and numbers below, in and above the range.
PercentageValues ==
    <<Absent, Null, Str(TextTen), Bool(TRUE), Bool(FALSE), Num(-5), Num(0), Num(1),
      Num(50), Num(100), Num(101)>>

PercentageDiscount(name, percentage) ==
    Discount(Str(name), Str(TextPercentage), Str(TextPublic),
             [EmptyData EXCEPT !.percentage = percentage])

\* One percentage discount, or two; and one that has no discountData.
PercentageDocs ==
    {With(MinimalCatalog, "discounts", <<PercentageDiscount(Promo, PercentageValues[i])>>) :
       i \in 1..Len(PercentageValues)}
    \cup
    {With(MinimalCatalog, "discounts",
          <<PercentageDiscount(Promo, pair[1]), PercentageDiscount(Soldes, pair[2])>>) :
       pair \in {<<Absent, Num(0)>>, <<Num(101), Num(50)>>, <<Str(TextTen), Num(-5)>>}}
    \cup
    {With(MinimalCatalog, "discounts",
          <<Discount(Str(Promo), Str(TextPercentage), Str(TextPublic), Absent)>>)}

\* A member that should be a list and is null, or a text.
NullList == [t |-> "null", v |-> <<>>]

TextList == [t |-> "str", v |-> <<>>]

\* A deal of the product Margherita with these lines.
DealOf(lines) ==
    With(MinimalCatalog, "deals", <<[Deal(Str(Promo), Str(Pizzas), <<>>) EXCEPT !.lines = lines]>>)

\* Deals without lines, lines without skus and skus without skuName, alone
\* and followed by other deals, lines and skus; and skus whose skuName holds
\* " (" twice, or "(" without the space.
DealStructureDocs ==
    {DealOf(lines) : lines \in {EmptyList, List(<<>>), NullList, TextList}}
    \cup
    {DealOf(List(<<[Line(<<>>) EXCEPT !.skus = skus], Line(<<DealSku(Str(Margherita))>>)>>)) :
       skus \in {EmptyList, List(<<>>), NullList, TextList}}
    \cup
    {DealOf(List(<<Line(<<DealSku(name), DealSku(Str(Margherita))>>)>>)) :
       name \in {Absent, Empty, Null, Str(MargheritaTwice), Str(MargheritaNoSpace)}}
    \cup
    {With(MinimalCatalog, "deals",
          <<[Deal(Str(Promo), Str(Pizzas), <<>>) EXCEPT !.lines = EmptyList],
            Deal(Str(Menu), Str(Pizzas),
                 <<Line(<<>>),
                   Line(<<DealSku(Absent), DealSku(Str(Margherita)), DealSku(Empty)>>),
                   Line(<<DealSku(Str(ParenOnly))>>)>>),
            Deal(Str(Soldes), Str(Pizzas), <<>>)>>)}

Docs ==
    RootDocs \cup ProductCategoryDocs \cup OptionListDocs \cup SkuOptionListDocs
    \cup DealCategoryDocs \cup DealSkuDocs \cup DiscountDocs \cup SettingsDocs
    \cup RepeatDocs \cup RefFormatDocs \cup SelectionDocs \cup WrongTypeDocs
    \cup PriceDocs \cup ImageDocs \cup AvailabilityDocs \cup ManyDiagnosticsDocs
    \cup PercentageDocs \cup DealStructureDocs

\* The runs of main(): no argument, no file, a file that is not JSON, a file
\* that is not UTF-8, and the files that parse.
Runs ==
    {[argv |-> FALSE, file |-> "missing", doc |-> MinimalCatalog]}
    \cup {[argv |-> TRUE, file |-> f, doc |-> MinimalCatalog] :
            f \in {"missing", "invalid_json", "not_utf8"}}
    \cup {[argv |-> TRUE, file |-> "json", doc |-> d] : d \in Docs}

Init ==
    /\ \E run \in Runs :
         /\ argv = run.argv
         /\ file = run.file
         /\ doc = run.doc
    /\ pc = "main"
    /\ errors = <<>>
    /\ warnings = <<>>
    /\ is_valid = "none"
    /\ report = <<>>
    /\ exit_code = -1
    /\ calls = 0

Spec == Init /\ [][Next]_vars

(***************************************************************************)
(* A caller that constructs a CatalogValidator on a document and calls     *)
(* validate() on it more than once                                         *)
(***************************************************************************)
MaxCalls == 2

\* CatalogValidator(catalog_json): no errors and no warnings.
InitTwice ==
    /\ argv = TRUE
    /\ file = "json"
    /\ doc \in Docs
    /\ pc = "validate_root_structure"
    /\ errors = <<>>
    /\ warnings = <<>>
    /\ is_valid = "none"
    /\ report = <<>>
    /\ exit_code = -1
    /\ calls = 0

\* validator.validate(), after a call of it has returned: self.errors and
\* self.warnings are what that call left.
validate_again ==
    /\ pc = "print_report"
    /\ calls < MaxCalls
    /\ pc' = "validate_root_structure"
    /\ UNCHANGED <<calls, argv, file, doc, errors, warnings, is_valid, report, exit_code>>

NextTwice ==
    \/ validate_root
    \/ call_validate_catalog_name
    \/ call_validate_option_list_references_in_options
    \/ call_validate_category_references_in_products
    \/ call_validate_option_list_references_in_products
    \/ call_validate_category_references_in_deals
    \/ call_validate_product_references_in_deals
    \/ call_validate_deal_structure
    \/ call_validate_primary_categories_in_settings
    \/ call_validate_discount_product_references
    \/ call_validate_discount_structure
    \/ call_validate_category_structure
    \/ call_validate_option_list_structure
    \/ call_validate_option_structure
    \/ call_validate_product_structure
    \/ call_validate_uniqueness
    \/ call_validate_ref_format
    \/ call_validate_option_list_selections
    \/ call_check_images
    \/ call_check_empty_entities
    \/ call_check_price_format
    \/ validate_return
    \/ validate_again

SpecTwice == InitTwice /\ [][NextTwice]_vars

(***************************************************************************)
(* Properties of the root check, the verdict and the exit status           *)
(***************************************************************************)
\* The document is a JSON object whose 'catalog' member is missing, null,
\* an empty object or an empty text.
MissingCatalog ==
    /\ doc.top = "dict"
    /\ \/ doc.catalog \in {"absent", "null"}
       \/ doc.catalog = "dict" /\ doc.keys = {}
       \/ doc.catalog = "str" /\ doc.catalog_str = <<>>

\* validate() was called: main() is past the load of the file.
Called == argv /\ file = "json" /\ pc \notin {"main", "exists", "load"}

\* C1: on a document whose 'catalog' member is missing or falsy, validate()
\* returns False right after the root check, with the missing-root error as
\* its only error and no warning, and no other rule group is ever called.
C1_RootGate ==
    (Called /\ MissingCatalog /\ pc # "validate_root_structure") =>
        /\ is_valid = "False"
        /\ errors = <<Diag("catalog_missing")>>
        /\ warnings = <<>>
        /\ pc \in {"print_report", "exit", "uncaught", "exited"}

\* A document whose 'catalog' member is null has left validate().
C1_Witness ==
    /\ MissingCatalog
    /\ doc.catalog = "null"
    /\ pc = "print_report"
    /\ is_valid = "False"
    /\ Len(errors) = 1

\* C2: once validate() has returned, it returned False exactly when errors
\* is not empty, and the verdict of the report is INVALID exactly then; with
\* no error the verdict is VALID, with warnings noted exactly when warnings
\* is not empty.
C2_Verdict ==
    /\ is_valid # "none" => ((is_valid = "False") <=> (errors # <<>>))
    /\ report # <<>> =>
         /\ (report[1].verdict = "INVALID") <=> (errors # <<>>)
         /\ (report[1].verdict = "INVALID") <=> (is_valid = "False")
         /\ (report[1].verdict = "VALID (with warnings)")
               <=> (errors = <<>> /\ warnings # <<>>)
         /\ (report[1].verdict = "VALID") <=> (errors = <<>> /\ warnings = <<>>)

\* A document with warnings and no error was reported as valid.
C2_Witness ==
    /\ report # <<>>
    /\ warnings # <<>>
    /\ errors = <<>>
    /\ is_valid = "True"
    /\ report[1].verdict = "VALID (with warnings)"
    /\ exit_code = 0

\* C3: main() ends with status 2 exactly when the file is missing or is not
\* JSON, with status 1 exactly when the file parsed and validation recorded
\* an error, with status 0 exactly when the file parsed and validation
\* recorded no error, and with no other status.
C3_ExitStatus ==
    exit_code # -1 =>
        /\ exit_code \in {0, 1, 2}
        /\ (exit_code = 2) <=> (~argv \/ file \in {"missing", "invalid_json", "not_utf8"})
        /\ (exit_code = 1) <=> (argv /\ file = "json" /\ errors # <<>>)
        /\ (exit_code = 0) <=> (argv /\ file = "json" /\ errors = <<>>)

(***************************************************************************)
(* Properties of the references between entities                           *)
(***************************************************************************)
\* rs[1] \o rs[2] \o ...
RECURSIVE Flatten(_)
Flatten(rs) == IF rs = <<>> THEN <<>> ELSE Head(rs) \o Flatten(Tail(rs))

\* The part of s at the positions where keep holds.
Where(s, keep(_)) == Flatten([i \in 1..Len(s) |-> IF keep(i) THEN <<s[i]>> ELSE <<>>])

\* Every entry of every entity list of the document is an object.
Objects(d) ==
    \A key \in {"categories", "optionLists", "options", "products", "deals", "discounts"} :
        AllObjects(Entities(d, key))

\* The rule group that reports the unresolved references of a kind.
GroupOf ==
    [option_list_undefined_in_options |-> "validate_option_list_references_in_options",
     category_undefined_in_product |-> "validate_category_references_in_products",
     option_list_undefined_in_product |-> "validate_option_list_references_in_products",
     category_undefined_in_deal |-> "validate_category_references_in_deals",
     product_undefined_in_deal |-> "validate_product_references_in_deals",
     product_undefined_in_bogo |-> "validate_discount_product_references",
     product_undefined_in_discount |-> "validate_discount_product_references",
     primary_category_undefined |-> "validate_primary_categories_in_settings"]

UnresolvedKinds == DOMAIN GroupOf

\* The entity list a kind of reference points into.
TargetOf ==
    [option_list_undefined_in_options |-> "optionLists",
     category_undefined_in_product |-> "categories",
     option_list_undefined_in_product |-> "optionLists",
     category_undefined_in_deal |-> "categories",
     product_undefined_in_deal |-> "products",
     product_undefined_in_bogo |-> "products",
     product_undefined_in_discount |-> "products",
     primary_category_undefined |-> "categories"]

\* The names of the declared entities a kind of reference points into.
DeclaredNames(d, kind) ==
    {Entities(d, TargetOf[kind])[i].name : i \in 1..Len(Entities(d, TargetOf[kind]))}

\* The key of a deal sku: the text of skuName before the first " (".
SkuKey(sku) ==
    IF sku.skuName.t = "str" THEN Str(SplitFirst(sku.skuName.s, TextParen))
    ELSE sku.skuName

\* The reference occurrences of a kind, in document order.
References(d, kind) ==
    LET options == Entities(d, "options")
        products == Entities(d, "products")
        deals == Entities(d, "deals")
        discounts == Entities(d, "discounts")
        settings == Field(d, "settings")
        OfType(type) == Where(discounts, LAMBDA i : discounts[i].discountType = Str(type))
    IN CASE kind = "option_list_undefined_in_options" ->
                [i \in 1..Len(options) |-> options[i].optionListName]
         [] kind = "category_undefined_in_product" ->
                [i \in 1..Len(products) |-> products[i].categoryName]
         [] kind = "option_list_undefined_in_product" ->
                Flatten([i \in 1..Len(products) |-> SkuOf(products[i]).optionListNames])
         [] kind = "category_undefined_in_deal" ->
                [i \in 1..Len(deals) |-> deals[i].categoryName]
         [] kind = "product_undefined_in_deal" ->
                Flatten([i \in 1..Len(deals) |->
                    Flatten([j \in 1..Len(deals[i].lines.v) |->
                        [k \in 1..Len(deals[i].lines.v[j].skus.v) |->
                            SkuKey(deals[i].lines.v[j].skus.v[k])]])])
         [] kind = "product_undefined_in_bogo" ->
                Flatten([i \in 1..Len(OfType(TextBogo)) |->
                    DataOf(OfType(TextBogo)[i]).productNames.v])
         [] kind = "product_undefined_in_discount" ->
                [i \in 1..Len(OfType(TextFreeProduct)) |->
                    DataOf(OfType(TextFreeProduct)[i]).productName]
         [] kind = "primary_category_undefined" ->
                IF settings.t = "dict" THEN settings.primaryCategories ELSE <<>>

\* The errors of a kind, in the order they were appended.
ErrorsOf(kind) == SelectSeq(errors, LAMBDA e : e.kind = kind)

WarningsOf(kind) == SelectSeq(warnings, LAMBDA w : w.kind = kind)

Values(diags) == [i \in 1..Len(diags) |-> diags[i].val]

\* validate() is past the call of the rule group.
Done(group) ==
    \/ pc = "return"
    \/ pc \in Range(GroupOrder) /\ IndexOf(pc, GroupOrder) > IndexOf(group, GroupOrder)
    \/ is_valid # "none" /\ ~MissingCatalog

\* Every reference of the document is the name of a declared entity of the
\* kind it points to.
AllReferencesDeclared ==
    \A kind \in UnresolvedKinds :
        \A i \in 1..Len(References(doc, kind)) :
            \/ References(doc, kind)[i].t = "absent"
            \/ References(doc, kind)[i] \in DeclaredNames(doc, kind)

\* The same, and no reference is the empty text.
AllReferencesNamed ==
    \A kind \in UnresolvedKinds :
        \A i \in 1..Len(References(doc, kind)) :
            \/ References(doc, kind)[i].t = "absent"
            \/ /\ References(doc, kind)[i] \in DeclaredNames(doc, kind)
               /\ References(doc, kind)[i] # Empty

NoUnresolvedError == \A kind \in UnresolvedKinds : ErrorsOf(kind) = <<>>

\* C4 as claimed: a document in which every reference equals the name of a
\* declared entity of the target kind gets no unresolved-reference error.
C4_AllDeclared ==
    (Called /\ Objects(doc) /\ AllReferencesDeclared) => NoUnresolvedError

\* C4: a document in which every reference equals the non-empty name of a
\* declared entity of the target kind gets no unresolved-reference error,
\* whatever the order of the entities.
C4_AllNamed ==
    (Called /\ Objects(doc) /\ AllReferencesNamed) => NoUnresolvedError

\* Two products name the two declared categories in the opposite order, and
\* validate() has returned.
C4_Witness ==
    /\ is_valid # "none"
    /\ AllReferencesNamed
    /\ Len(Entities(doc, "categories")) = 2
    /\ Len(Entities(doc, "products")) = 2
    /\ doc.categories[1].name = doc.products[2].categoryName
    /\ doc.categories[2].name = doc.products[1].categoryName
    /\ doc.categories[1].name # doc.categories[2].name
    /\ NoUnresolvedError

\* The references of a kind that are not empty and name no declared entity.
Dangling(d, kind) ==
    Where(References(d, kind),
          LAMBDA i : /\ References(d, kind)[i].t = "str"
                     /\ References(d, kind)[i].s # <<>>
                     /\ References(d, kind)[i] \notin DeclaredNames(d, kind))

\* C5: once the rule group of a reference kind has run, the errors of that
\* kind that carry a non-empty value are one per reference whose non-empty
\* value names no declared entity, each carrying that value, in document
\* order; and validate() returns False for a document that has such a
\* reference.
C5_Unresolved ==
    (Called /\ Objects(doc)) =>
        \A kind \in UnresolvedKinds :
            /\ Done(GroupOf[kind]) =>
                 SelectSeq(Values(ErrorsOf(kind)), LAMBDA v : v # <<>>)
                    = [i \in 1..Len(Dangling(doc, kind)) |-> Dangling(doc, kind)[i].s]
            /\ (is_valid # "none" /\ Dangling(doc, kind) # <<>>) => is_valid = "False"

\* A deal with two skus that name no product got two errors.
C5_Witness ==
    /\ is_valid = "False"
    /\ Objects(doc)
    /\ Len(Dangling(doc, "product_undefined_in_deal")) = 2
    /\ Len(ErrorsOf("product_undefined_in_deal")) = 2

\* The similarity of a declared name to a value meets the floor of 0.6:
\* 2 * matches / (length + length) >= 6/10.
Near(name, value) ==
    10 * ratio(name, value).num >= 6 * ratio(name, value).den

\* The texts that are non-empty names of the entities a kind points into.
NamedTexts(d, kind) == {n.s : n \in {m \in DeclaredNames(d, kind) : m.t = "str" /\ m.s # <<>>}}

\* C6: "Pizzza" with "Pizzas" the only declared category is suggested
\* "Pizzas"; an unresolved-reference error has a suggestion exactly when a
\* declared name has similarity at least 0.6 to the value, and the
\* suggestion is then a declared name that none is nearer than.
C6_Suggestion ==
    (Called /\ Objects(doc)) =>
        \A kind \in UnresolvedKinds : \A i \in 1..Len(ErrorsOf(kind)) :
            LET e == ErrorsOf(kind)[i]
                names == NamedTexts(doc, kind)
            IN /\ (e.sugg # NoSuggestion) <=> (\E n \in names : Near(n, e.val))
               /\ e.sugg # NoSuggestion =>
                    /\ e.sugg \in names
                    /\ \A n \in names : ~RatioLess(ratio(e.sugg, e.val), ratio(n, e.val))
               /\ (kind = "category_undefined_in_product" /\ e.val = Pizzza
                     /\ names = {Pizzas}) => e.sugg = Pizzas
               /\ (e.val = Pizzza /\ names = {Pizzas, Pizza}) => e.sugg = Pizza
               /\ (e.val = Xy) => e.sugg = NoSuggestion

\* The product of category "Pizzza" was told "Pizzas".
C6_Witness ==
    /\ Objects(doc)
    /\ NamedTexts(doc, "category_undefined_in_product") = {Pizzas}
    /\ \E i \in 1..Len(errors) :
          /\ errors[i].kind = "category_undefined_in_product"
          /\ errors[i].val = Pizzza
          /\ errors[i].sugg = Pizzas

(***************************************************************************)
(* Properties of the uniqueness, ref format and selection rules            *)
(***************************************************************************)
\* The six identifier sequences: the entity list, the member, and the kind
\* of the duplicate error.
UniqueLists ==
    {<<"categories", "ref", "duplicate_category_ref">>,
     <<"categories", "name", "duplicate_category_name">>,
     <<"optionLists", "ref", "duplicate_option_list_ref">>,
     <<"optionLists", "name", "duplicate_option_list_name">>,
     <<"options", "ref", "duplicate_option_ref">>,
     <<"products", "ref", "duplicate_product_ref">>}

\* The member of every entity of a list, in document order.
ValuesOf(d, list, key) ==
    [i \in 1..Len(Entities(d, list)) |-> Entities(d, list)[i][key]]

Occurrences(values, v) == Cardinality({i \in 1..Len(values) : values[i] = v})

\* Of the values that Kept keeps, a value that occurs k times has k-1
\* errors, the errors are those of the occurrences after the first, in
\* document order, and there is no other error of the kind.
DuplicatesFlagged(Kept(_)) ==
    \A u \in UniqueLists :
        LET kept == SelectSeq(ValuesOf(doc, u[1], u[2]), Kept)
            flagged == Values(ErrorsOf(u[3]))
            later == Where(kept, LAMBDA i : \E j \in 1..(i - 1) : kept[j] = kept[i])
        IN /\ \A v \in Range(kept) :
                Occurrences(flagged, Fmt(v)) = Occurrences(kept, v) - 1
           /\ flagged = [i \in 1..Len(later) |-> Fmt(later[i])]

\* C7 as claimed: after the absent and null entries are filtered out, a
\* value that occurs k times gets k-1 duplicate errors.
C7_PresentValues ==
    (Called /\ Objects(doc) /\ Done("validate_uniqueness")) =>
        DuplicatesFlagged(LAMBDA v : v.t \notin {"absent", "null"})

\* C7: after the absent, null and empty entries are filtered out, a value
\* that occurs k times in document order gets k-1 duplicate errors: none for
\* its first occurrence and one for every later one.
C7_TruthyValues ==
    (Called /\ Objects(doc) /\ Done("validate_uniqueness")) =>
        DuplicatesFlagged(LAMBDA v : v.t = "str" /\ v.s # <<>>)

\* Three categories with the same ref got two errors.
C7_Witness ==
    /\ is_valid = "False"
    /\ Objects(doc)
    /\ Len(Entities(doc, "categories")) = 3
    /\ \A i \in 1..3 : doc.categories[i].ref = Str(RefA)
    /\ Len(ErrorsOf("duplicate_category_ref")) = 2

\* The pattern, character by character: an uppercase letter first, then
\* uppercase letters, digits and single underscores, none of them last; a
\* line break may follow.
WellFormedRef(s) ==
    LET body == IF s # <<>> /\ s[Len(s)] = "\n" THEN SubSeq(s, 1, Len(s) - 1) ELSE s
    IN /\ body # <<>>
       /\ body[1] \in UpperChars
       /\ \A i \in 1..Len(body) : body[i] \in UpperChars \cup DigitChars \cup {"_"}
       /\ body[Len(body)] # "_"
       /\ \A i \in 1..(Len(body) - 1) : ~(body[i] = "_" /\ body[i + 1] = "_")

\* The entity lists whose refs are checked, and the kind of the warning.
RefLists ==
    {<<"categories", "ref_format_category">>,
     <<"optionLists", "ref_format_option_list">>,
     <<"options", "ref_format_option">>,
     <<"products", "ref_format_product">>}

\* One warning for every ref that Checked holds of and that does not match
\* the pattern, carrying the ref and a suggestion; no warning for another
\* ref; no error; and a catalog that is valid but for its refs stays valid.
RefsWarned(Checked(_)) ==
    /\ \A u \in RefLists :
         LET refs == ValuesOf(doc, u[1], "ref")
             bad == Where(refs, LAMBDA i : Checked(refs[i]) /\ ~WellFormedRef(refs[i].s))
         IN /\ Values(WarningsOf(u[2])) = [i \in 1..Len(bad) |-> bad[i].s]
            /\ \A i \in 1..Len(WarningsOf(u[2])) : WarningsOf(u[2])[i].sugg # <<>>
            /\ ErrorsOf(u[2]) = <<>>
    /\ (is_valid # "none" /\ doc \in SingleRefDocs) => (is_valid = "True" /\ errors = <<>>)

\* C8 as claimed: every present ref that does not match the pattern gets
\* exactly one warning with the ref and a suggestion, and no error.
C8_PresentRefs ==
    (Called /\ Objects(doc) /\ Done("validate_ref_format")) =>
        RefsWarned(LAMBDA r : r.t = "str")

\* C8: every present, non-empty ref that does not match the pattern gets
\* exactly one warning with the ref and a suggestion, and no error; a ref
\* that matches gets neither; a catalog whose only defect is malformed refs
\* is VALID.
C8_NonEmptyRefs ==
    (Called /\ Objects(doc) /\ Done("validate_ref_format")) =>
        RefsWarned(LAMBDA r : r.t = "str" /\ r.s # <<>>)

\* A catalog with a malformed category ref ended with status 0 and the
\* warning.
C8_Witness ==
    /\ exit_code = 0
    /\ doc \in SingleRefDocs
    /\ \E i \in 1..Len(warnings) :
          /\ warnings[i].kind = "ref_format_category"
          /\ warnings[i].val = RefKebab

\* The seven steps, each written position by position.
SevenSteps(value) ==
    LET Sep(c) == c = "-" \/ c \in SpaceChars
        step1 == Flatten([i \in 1..Len(value) |->
                    IF ~Sep(value[i]) THEN <<value[i]>>
                    ELSE IF i > 1 /\ Sep(value[i - 1]) THEN <<>> ELSE <<"_">>])
        step2 == Flatten([i \in 1..Len(step1) |->
                    IF i < Len(step1) /\ step1[i] \in LowerChars
                                      /\ step1[i + 1] \in UpperChars
                    THEN <<step1[i], "_">> ELSE <<step1[i]>>])
        step3 == [i \in 1..Len(step2) |->
                    IF step2[i] \in LowerChars
                    THEN UpperSeq[IndexOf(step2[i], LowerSeq)] ELSE step2[i]]
        step4 == Where(step3, LAMBDA i : step3[i] \in UpperChars \cup DigitChars \cup {"_"})
        step5 == Where(step4, LAMBDA i : ~(i > 1 /\ step4[i] = "_" /\ step4[i - 1] = "_"))
        inner == {i \in 1..Len(step5) : step5[i] # "_"}
        step6 == IF inner = {} THEN <<>> ELSE SubSeq(step5, MinOf(inner), MaxOf(inner))
    IN IF step6 = <<>> THEN <<"U","N","N","A","M","E","D">> ELSE step6

\* C9: the suggested ref of every ref-format warning is the result of the
\* seven steps on the ref; "Main Courses" and "mainCourses" give
\* "MAIN_COURSES".
C9_SuggestRef ==
    \A u \in RefLists : \A i \in 1..Len(WarningsOf(u[2])) :
        LET w == WarningsOf(u[2])[i]
        IN /\ w.sugg = SevenSteps(w.val)
           /\ w.val \in {MainCoursesSpaced, mainCourses} => w.sugg = MAIN_COURSES

\* Both examples were suggested MAIN_COURSES.
C9_Witness ==
    /\ Len(WarningsOf("ref_format_category")) = 2
    /\ WarningsOf("ref_format_category")[1].val = mainCourses
    /\ WarningsOf("ref_format_category")[1].sugg = MAIN_COURSES
    /\ WarningsOf("ref_format_category")[2].val = MainCoursesSpaced
    /\ WarningsOf("ref_format_category")[2].sugg = MAIN_COURSES

\* C10: once the selection rules have run, an option list has the
\* minSelections error exactly when its minSelections is below 0, the
\* maxSelections error exactly when both are given and maxSelections is
\* below minSelections (so exactly one error for minSelections=2,
\* maxSelections=1), and only a warning when fewer options name it than its
\* positive minSelections.
C10_Selections ==
    (Called /\ Objects(doc) /\ Done("validate_option_list_selections")) =>
        LET lists == Entities(doc, "optionLists")
            options == Entities(doc, "options")
            Given(v) == v.t = "num"
            Owner(ol) == Fmt(GetOr(ol.name, Str(TextUnknown)))
            Owners(diags) == [i \in 1..Len(diags) |-> diags[i].owner]
            OwnersOf(chosen) == [i \in 1..Len(chosen) |-> Owner(chosen[i])]
            Naming(ol) == Cardinality({i \in 1..Len(options) :
                                         /\ options[i].optionListName # Empty
                                         /\ options[i].optionListName = ol.name})
            negative == Where(lists, LAMBDA i : /\ Given(lists[i].minSelections)
                                                /\ lists[i].minSelections.n < 0)
            below == Where(lists, LAMBDA i : /\ Given(lists[i].minSelections)
                                             /\ Given(lists[i].maxSelections)
                                             /\ lists[i].maxSelections.n
                                                  < lists[i].minSelections.n)
            few == Where(lists, LAMBDA i : /\ Given(lists[i].minSelections)
                                           /\ lists[i].minSelections.n > 0
                                           /\ Naming(lists[i]) < lists[i].minSelections.n)
            selection_errors ==
                SelectSeq(errors, LAMBDA e : e.kind \in {"minSelections_negative",
                                                         "maxSelections_below_min"})
        IN /\ Owners(ErrorsOf("minSelections_negative")) = OwnersOf(negative)
           /\ Owners(ErrorsOf("maxSelections_below_min")) = OwnersOf(below)
           /\ Owners(WarningsOf("too_few_options")) = OwnersOf(few)
           /\ ErrorsOf("too_few_options") = <<>>
           /\ \A i \in 1..Len(lists) :
                (lists[i].minSelections = Num(2) /\ lists[i].maxSelections = Num(1)
                   /\ Occurrences(OwnersOf(lists), Owner(lists[i])) = 1)
                => Occurrences(Owners(selection_errors), Owner(lists[i])) = 1

\* An option list with minSelections=2 and maxSelections=1 and one option
\* got the one error and the warning.
C10_Witness ==
    /\ is_valid = "False"
    /\ Objects(doc)
    /\ Len(Entities(doc, "optionLists")) = 1
    /\ doc.optionLists[1].minSelections = Num(2)
    /\ doc.optionLists[1].maxSelections = Num(1)
    /\ Len(Entities(doc, "options")) = 1
    /\ Len(ErrorsOf("maxSelections_below_min")) = 1
    /\ Len(ErrorsOf("minSelections_negative")) = 0
    /\ Len(WarningsOf("too_few_options")) = 1

(***************************************************************************)
(* Properties of the prices                                                *)
(***************************************************************************)
\* The prices of the products, the options and the deals that are objects,
\* each with the name of its owner.
PricesOf(d) ==
    LET products == Entities(d, "products")
        options == Entities(d, "options")
        deals == Entities(d, "deals")
    IN [i \in 1..Len(products) |->
          [price |-> SkuOf(products[i]).price, owner |-> products[i].name,
           of_product |-> TRUE]]
       \o [i \in 1..Len(options) |->
          [price |-> options[i].price, owner |-> options[i].name, of_product |-> FALSE]]
       \o [i \in 1..Len(deals) |->
          [price |-> deals[i].price, owner |-> deals[i].name, of_product |-> FALSE]]

\* The amount of the price is a JSON number (true and false are not).
NumericAmount(price) == price.t = "dict" /\ price.amount.t = "num"

\* The price is an object whose amount is negative or is not a number, or
\* whose currency is not a text.
Mispriced(price) ==
    /\ price.t = "dict"
    /\ \/ ~NumericAmount(price)
       \/ price.amount.n < 0
       \/ price.currency.t # "str"

\* The price is well formed and its amount is above 500.
HighPriced(price) ==
    /\ NumericAmount(price)
    /\ price.currency.t = "str"
    /\ price.amount.n > 500

\* C11: once validate() has returned, a document with an option, product or
\* deal price whose amount is negative or not a number, or whose currency is
\* not a text, has an error and is invalid; and every product whose price is
\* above 500 is the owner of a warning and of no error.
C11_Prices ==
    (is_valid # "none" /\ ~MissingCatalog /\ Objects(doc)) =>
        LET prices == PricesOf(doc)
        IN /\ (\E i \in 1..Len(prices) : Mispriced(prices[i].price)) =>
                  errors # <<>> /\ is_valid = "False"
           /\ \A i \in 1..Len(prices) :
                  (prices[i].of_product /\ HighPriced(prices[i].price)) =>
                      /\ \E j \in 1..Len(warnings) :
                             warnings[j].owner = Fmt(prices[i].owner)
                      /\ \A j \in 1..Len(errors) :
                             errors[j].owner # Fmt(prices[i].owner)

(***************************************************************************)
(* Properties of the images                                                *)
(***************************************************************************)
StartsWith(s, prefix) ==
    Len(s) >= Len(prefix) /\ SubSeq(s, 1, Len(prefix)) = prefix

TextHttp == <<"h","t","t","p",":","/","/">>

TextHttps == <<"h","t","t","p","s",":","/","/">>

\* The kinds of the warnings of _check_images.
ImageKinds ==
    {"products_without_image", "options_without_image", "image_url_shared",
     "image_url_shared_by"}

\* The product has an imageUrl that starts with neither http:// nor https://.
Unfetchable(prod) ==
    /\ prod.imageUrl.t \notin {"absent", "null"}
    /\ prod.imageUrl.t = "str" =>
           ~StartsWith(prod.imageUrl.s, TextHttp) /\ ~StartsWith(prod.imageUrl.s, TextHttps)

\* The image warnings that name the product or show its imageUrl.
ImageWarningsAbout(prod) ==
    SelectSeq(warnings, LAMBDA w :
        /\ w.kind \in ImageKinds
        /\ \/ \E k \in 1..Len(w.names) : Str(w.names[k]) = prod.name
           \/ prod.imageUrl.t = "str" /\ w.val = prod.imageUrl.s)

\* C12: once _check_images has run, every product whose imageUrl is present
\* and starts with neither http:// nor https:// is named by an image warning,
\* and a document with a product that has no imageUrl has the missing-image
\* warning; no error is an image diagnostic.
C12_ImageUrls ==
    (Done("check_images") /\ Objects(doc)) =>
        LET products == Entities(doc, "products")
        IN /\ \A i \in 1..Len(products) :
                  Unfetchable(products[i]) => ImageWarningsAbout(products[i]) # <<>>
           /\ (\E i \in 1..Len(products) : products[i].imageUrl.t = "absent") =>
                  Len(WarningsOf("products_without_image")) = 1
           /\ \A j \in 1..Len(errors) : errors[j].kind \notin ImageKinds

\* The text of url before its first '?'.
BaseOf(url) ==
    LET marks == {i \in 1..Len(url) : url[i] = "?"}
    IN IF marks = {} THEN url
       ELSE SubSeq(url, 1, (CHOOSE i \in marks : \A j \in marks : i <= j) - 1)

\* The products that have an image, and those that share the base URL of
\* product i.
HasImage(prod) == prod.imageUrl.t = "str" /\ prod.imageUrl.s # <<>>

Sharing(products, i) ==
    {j \in 1..Len(products) :
        /\ HasImage(products[j])
        /\ BaseOf(products[j].imageUrl.s) = BaseOf(products[i].imageUrl.s)}

\* The first product of every group of two or more products that share a
\* base URL, in document order.
SharedGroups(products) ==
    Where(products, LAMBDA i :
        /\ HasImage(products[i])
        /\ Cardinality(Sharing(products, i)) > 1
        /\ \A j \in Sharing(products, i) : i <= j)

\* The names of the products of the group of product i, in document order.
GroupNames(products, i) ==
    LET named == Where(products, LAMBDA j : j \in Sharing(products, i))
    IN [k \in 1..Len(named) |-> named[k].name.s]

\* The products of the document that share a base URL with another one.
Affected(products) ==
    {i \in 1..Len(products) :
        HasImage(products[i]) /\ Cardinality(Sharing(products, i)) > 1}

Last(s, n) == SubSeq(s, Len(s) - n + 1, Len(s))

\* C14: the warnings that _check_empty_entities has just appended are the
\* warnings that every other run of it on the same document appends,
\* whatever the order in which that run iterates the two sets.
C14_Idempotent ==
    pc = After("check_empty_entities") =>
        \A cat_order \in Orders(empty_categories(doc)),
           ol_order \in Orders(empty_option_lists(doc)) :
            LET again == check_empty_entities(doc, cat_order, ol_order).w
            IN /\ Len(again) <= Len(warnings)
               /\ Last(warnings, Len(again)) = again

(***************************************************************************)
(* Properties of the faults                                                *)
(***************************************************************************)
\* C15: on a file that parsed, validate() does not end by an exception:
\* main() never reaches the end by an uncaught exception before validate()
\* has returned.
C15_NoFault ==
    (argv /\ file = "json" /\ pc = "uncaught") => is_valid # "none"

(***************************************************************************)
(* The end-to-end example                                                  *)
(***************************************************************************)
\* The one warning of the minimal catalog: its product has no image.
MargheritaWithoutImage ==
    [Diag("products_without_image") EXCEPT !.nums = <<1>>, !.names = <<Margherita>>]

\* C16: the run on the minimal catalog (one category Pizzas with the ref
\* PIZZAS, one available product Margherita at 10 EUR in it) never records an
\* error and never ends by an exception; from _check_images on its warnings
\* are the one missing-image warning; validate() returns True, the report
\* states no error, one warning and a VALID verdict, and the status is 0.
C16_Minimal ==
    (argv /\ file = "json" /\ doc = MinimalCatalog) =>
        /\ errors = <<>>
        /\ pc # "uncaught"
        /\ warnings = IF Done("check_images") THEN <<MargheritaWithoutImage>> ELSE <<>>
        /\ is_valid \in {"none", "True"}
        /\ pc \in {"print_report", "exit", "exited"} => is_valid = "True"
        /\ report # <<>> =>
               /\ report[1].n_errors = 0
               /\ report[1].n_warnings = 1
               /\ report[1].warnings = <<MargheritaWithoutImage>>
               /\ report[1].verdict = "VALID (with warnings)"
        /\ pc = "exited" => exit_code = 0 /\ report # <<>>

\* The run on the minimal catalog has ended.
C16_Witness ==
    /\ argv
    /\ file = "json"
    /\ doc = MinimalCatalog
    /\ doc.categories = <<Category(Str(Pizzas), Str(PIZZAS))>>
    /\ doc.products = <<Margherita10>>
    /\ pc = "exited"
    /\ exit_code = 0
    /\ errors = <<>>
    /\ Len(warnings) = 1

(***************************************************************************)
(* Properties of the report                                                *)
(***************************************************************************)
\* The first n entries of s, or all of s when it has fewer.
FirstN(s, n) == SubSeq(s, 1, IF Len(s) < n THEN Len(s) ELSE n)

\* print_report returns: the step that sets report.
Rendered == pc = "print_report" /\ report' # <<>>

\* The rendering leaves the errors, the warnings and the document alone, and
\* the counts it states are those of the recorded entries.
RenderedFaithfully ==
    /\ errors' = errors
    /\ warnings' = warnings
    /\ doc' = doc
    /\ report'[1].n_errors = Len(errors)
    /\ report'[1].n_warnings = Len(warnings)

\* The warnings of the report show at most three of the groups of products
\* that share an image, the first ones, and the summary counts all groups.
ThreeGroupsShown ==
    LET groups == SharedGroups(Entities(doc, "products"))
        shown == SelectSeq(report'[1].warnings, LAMBDA w : w.kind = "image_url_shared_by")
        summary == SelectSeq(report'[1].warnings, LAMBDA w : w.kind = "image_url_shared")
    IN /\ Len(shown) = Len(FirstN(groups, 3))
       /\ \A i \in 1..Len(shown) :
              shown[i].names[1] = groups[i].name.s
       /\ groups # <<>> => Len(summary) = 1 /\ summary[1].nums[1] = Len(groups)

\* C17 as claimed: the report shows the first 5 errors and the first 10
\* warnings at most, and at most the first 3 groups of shared images, in the
\* recorded order; the counts are those of all recorded entries; rendering
\* changes neither the errors, nor the warnings, nor the document.
C17_Truncated ==
    [][Rendered =>
         /\ report'[1].errors = FirstN(errors, 5)
         /\ report'[1].warnings = FirstN(warnings, 10)
         /\ ThreeGroupsShown
         /\ RenderedFaithfully]_vars

\* C17 as the code has it: the report shows every recorded error and every
\* recorded warning in the recorded order, among them at most the first 3
\* groups of shared images that the validator recorded; the counts are those
\* of all recorded entries; rendering changes neither the errors, nor the
\* warnings, nor the document.
C17_ShowsAll ==
    [][Rendered =>
         /\ report'[1].errors = errors
         /\ report'[1].warnings = warnings
         /\ ThreeGroupsShown
         /\ RenderedFaithfully]_vars

\* A report of 20 errors and 15 warnings, of a catalog with four groups of
\* shared images: all are shown, and three of the groups.
C17_Witness ==
    /\ report # <<>>
    /\ doc \in ManyDiagnosticsDocs
    /\ Len(errors) = 20
    /\ Len(report[1].errors) = 20
    /\ Len(warnings) = 15
    /\ Len(report[1].warnings) = 15
    /\ Len(SharedGroups(Entities(doc, "products"))) = 4
    /\ Len(WarningsOf("image_url_shared_by")) = 3

(***************************************************************************)
(* Properties of the required members                                      *)
(***************************************************************************)
\* The entities of the kinds that must have a member, with their kind.
Lacking(d, keys, lacks(_)) ==
    \E key \in keys : \E i \in 1..Len(Entities(d, key)) : lacks(Entities(d, key)[i])

\* C18: once validate() has returned, a document with a product or an option
\* whose 'available' is missing or is not a boolean, or with a category, an
\* option list or an option that has no ref, has an error and is invalid.
C18_Required ==
    (is_valid # "none" /\ ~MissingCatalog /\ Objects(doc)) =>
        /\ Lacking(doc, {"products", "options"}, LAMBDA x : x.available.t # "bool") =>
               errors # <<>> /\ is_valid = "False"
        /\ Lacking(doc, {"categories", "optionLists", "options"},
                   LAMBDA x : x.ref.t \in {"absent", "null"}) =>
               errors # <<>> /\ is_valid = "False"

(***************************************************************************)
(* Properties of the sequence of the rule groups                           *)
(***************************************************************************)
\* The 'catalog' member of the document is an object with members.
CatalogObject == doc.top = "dict" /\ doc.catalog = "dict" /\ doc.keys # {}

\* What a rule group does on a document, by the name of the group.
RuleGroup(group, d, cat_order, ol_order) ==
    CASE group = "validate_catalog_name" -> validate_catalog_name(d)
      [] group = "validate_option_list_references_in_options" ->
             validate_option_list_references_in_options(d)
      [] group = "validate_category_references_in_products" ->
             validate_category_references_in_products(d)
      [] group = "validate_option_list_references_in_products" ->
             validate_option_list_references_in_products(d)
      [] group = "validate_category_references_in_deals" ->
             validate_category_references_in_deals(d)
      [] group = "validate_product_references_in_deals" ->
             validate_product_references_in_deals(d)
      [] group = "validate_deal_structure" -> validate_deal_structure(d)
      [] group = "validate_primary_categories_in_settings" ->
             validate_primary_categories_in_settings(d)
      [] group = "validate_discount_product_references" ->
             validate_discount_product_references(d)
      [] group = "validate_discount_structure" -> validate_discount_structure(d)
      [] group = "validate_category_structure" -> validate_category_structure(d)
      [] group = "validate_option_list_structure" -> validate_option_list_structure(d)
      [] group = "validate_option_structure" -> validate_option_structure(d)
      [] group = "validate_product_structure" -> validate_product_structure(d)
      [] group = "validate_uniqueness" -> validate_uniqueness(d)
      [] group = "validate_ref_format" -> validate_ref_format(d)
      [] group = "validate_option_list_selections" -> validate_option_list_selections(d)
      [] group = "check_images" -> check_images(d)
      [] group = "check_empty_entities" -> check_empty_entities(d, cat_order, ol_order)
      [] group = "check_price_format" -> check_price_format(d)

\* The errors, or the warnings, that the groups append when each runs on the
\* document by itself, one after the other in the order of validate().
Separately(d, cat_order, ol_order, side) ==
    Flatten([i \in 1..Len(GroupOrder) |->
               RuleGroup(GroupOrder[i], d, cat_order, ol_order)[side]])

\* C19: on a document whose 'catalog' is an object, validate() is left by
\* its return only, after the last rule group, and the errors and warnings
\* it leaves are those that the groups append each by itself on the document,
\* in the order of validate(), whatever order a set is iterated in.
C19_AllGroupsRun ==
    (argv /\ file = "json" /\ CatalogObject
       /\ pc \in {"uncaught", "print_report", "exit", "exited"}) =>
        /\ is_valid # "none"
        /\ \A cat_order \in Orders(empty_categories(doc)),
              ol_order \in Orders(empty_option_lists(doc)) :
               /\ errors = Separately(doc, cat_order, ol_order, "e")
               /\ warnings = Separately(doc, cat_order, ol_order, "w")

\* The values of the member key of the items that are not in used, each once,
\* in the order of the document.
UnusedInOrder(items, key, used) ==
    LET kept == Where(items, LAMBDA i :
                    /\ NoneOr(items[i][key]) \notin used
                    /\ \A j \in 1..(i - 1) : NoneOr(items[j][key]) # NoneOr(items[i][key]))
    IN [i \in 1..Len(kept) |-> NoneOr(kept[i][key])]

\* The warnings of _check_empty_entities in the order of the document.
EmptyInDocumentOrder(d) ==
    LET cats == UnusedInOrder(Entities(d, "categories"), "name",
                              ValueSet(Entities(d, "products"), "categoryName"))
        ols == UnusedInOrder(Entities(d, "optionLists"), "name",
                             ValueSet(Entities(d, "options"), "optionListName"))
    IN [i \in 1..Len(cats) |-> [Diag("category_empty") EXCEPT !.val = Fmt(cats[i])]]
       \o [i \in 1..Len(ols) |-> [Diag("option_list_empty") EXCEPT !.val = Fmt(ols[i])]]

\* s is the beginning of t.
IsPrefix(s, t) == Len(s) <= Len(t) /\ SubSeq(t, 1, Len(s)) = s

\* C20: every step of a run keeps the errors and the warnings recorded so far
\* and only adds after them, and the warnings that _check_empty_entities adds
\* are in the order of the document: the empty categories, then the empty
\* option lists, each in the order the document lists them.
C20_DocumentOrder ==
    [][/\ IsPrefix(errors, errors')
       /\ IsPrefix(warnings, warnings')
       /\ (pc = "check_empty_entities" /\ pc' = After("check_empty_entities")) =>
              warnings' = warnings \o EmptyInDocumentOrder(doc)]_vars

(***************************************************************************)
(* Properties of the emptiness check                                       *)
(***************************************************************************)
\* The step of validate() that calls _check_empty_entities and returns.
EmptinessChecked == pc = "check_empty_entities" /\ pc' = After("check_empty_entities")

\* The entries of t after its beginning s.
Appended(s, t) == SubSeq(t, Len(s) + 1, Len(t))

\* The name an entity gives by its member key: null when it gives none.
NameGiven(x, key) == IF x[key].t \in {"absent", "null"} THEN Null ELSE x[key]

\* The names that the declaring entities give and no referring entity gives.
Unreferenced(declaring, name, referring, reference) ==
    {NameGiven(declaring[i], name) : i \in 1..Len(declaring)}
        \ {NameGiven(referring[j], reference) : j \in 1..Len(referring)}

\* The warnings are one for each of the names, and no other.
OneEach(warned, names) ==
    /\ Len(warned) = Cardinality(names)
    /\ {warned[i].val : i \in 1..Len(warned)} = {Fmt(v) : v \in names}

\* C21: the call of _check_empty_entities appends no error; the warnings it
\* appends are one for each distinct name that a category gives and no
\* product gives as its categoryName, then one for each distinct name that an
\* option list gives and no option gives as its optionListName, and no other
\* (an entity without the member gives the name null).
C21_Emptiness ==
    [][EmptinessChecked =>
         /\ errors' = errors
         /\ IsPrefix(warnings, warnings')
         /\ LET added == Appended(warnings, warnings')
                categories == SelectSeq(added, LAMBDA w : w.kind = "category_empty")
                lists == SelectSeq(added, LAMBDA w : w.kind = "option_list_empty")
            IN /\ added = categories \o lists
               /\ OneEach(categories,
                          Unreferenced(Entities(doc, "categories"), "name",
                                       Entities(doc, "products"), "categoryName"))
               /\ OneEach(lists,
                          Unreferenced(Entities(doc, "optionLists"), "name",
                                       Entities(doc, "options"), "optionListName"))]_vars

\* Of the categories Pizzas and Pizza the first has a product and the second
\* has none: the second, and only it, has the warning.
C21_Witness ==
    /\ pc = After("check_empty_entities")
    /\ Len(doc.categories) = 2
    /\ doc.categories[1].name = Str(Pizzas)
    /\ doc.categories[2].name = Str(Pizza)
    /\ Len(doc.products) = 1
    /\ doc.products[1].categoryName = Str(Pizzas)
    /\ WarningsOf("category_empty") = <<[Diag("category_empty") EXCEPT !.val = Pizza]>>
    /\ WarningsOf("option_list_empty") = <<>>

(***************************************************************************)
(* Properties of the percentage discounts                                  *)
(***************************************************************************)
PercentageChecked == pc = "validate_discount_structure"

\* The discounts of the document whose discountType is "percentage".
PercentageDiscounts(d) ==
    SelectSeq(Entities(d, "discounts"),
              LAMBDA x : x.obj /\ x.discountType = Str(TextPercentage))

\* discountData.percentage, missing when discountData is not an object.
PercentageOf(discount) ==
    IF discount.discountData.t = "dict" THEN discount.discountData.percentage ELSE Absent

\* The percentage is a JSON number (true and false are not).
NumericPercentage(discount) == PercentageOf(discount).t = "num"

\* The percentage is in the interval (0, 100].
InRange(discount) ==
    PercentageOf(discount).n > 0 /\ PercentageOf(discount).n <= PercentageMax

HowMany(items, Test(_)) == Len(SelectSeq(items, Test))

\* C22: the call of _validate_discount_structure appends one error about the
\* percentage for each percentage discount whose percentage is missing or is
\* not a number, one warning about the percentage for each whose percentage
\* is a number outside (0, 100], and nothing about the percentage for the
\* others.
C22_Percentage ==
    [][PercentageChecked =>
         LET discounts == PercentageDiscounts(doc)
             e == Appended(errors, errors')
             w == Appended(warnings, warnings')
         IN /\ HowMany(e, LAMBDA x : x.kind \in {"percentage_required",
                                                 "percentage_not_number"})
                 = HowMany(discounts, LAMBDA x : ~NumericPercentage(x))
            /\ HowMany(e, LAMBDA x : x.kind = "percentage_out_of_range") = 0
            /\ HowMany(w, LAMBDA x : x.kind = "percentage_out_of_range")
                 = HowMany(discounts, LAMBDA x : NumericPercentage(x) /\ ~InRange(x))
            /\ HowMany(w, LAMBDA x : x.kind \in {"percentage_required",
                                                 "percentage_not_number"}) = 0]_vars

(***************************************************************************)
(* Properties of the deals                                                 *)
(***************************************************************************)
DealReferencesChecked == pc = "validate_product_references_in_deals"

\* The skuName of every sku of every line of every deal, in document order.
SkuNames(d) ==
    LET deals == Entities(d, "deals")
    IN Flatten([i \in 1..Len(deals) |->
           Flatten([j \in 1..Len(deals[i].lines.v) |->
               [k \in 1..Len(deals[i].lines.v[j].skus.v) |->
                   deals[i].lines.v[j].skus.v[k].skuName]])])

\* The part of a text before its first " (", or all of it when it has none.
BeforeParen(s) ==
    LET at == {i \in 1..(Len(s) - 1) : s[i] = " " /\ s[i + 1] = "("}
    IN IF at = {} THEN s ELSE SubSeq(s, 1, MinOf(at) - 1)

\* The names of the declared products.
ProductNames(d) ==
    {Entities(d, "products")[i].name : i \in 1..Len(Entities(d, "products"))}

\* C23: the call of _validate_product_references_in_deals appends one error
\* for each deal sku whose skuName, cut before its first " (", is not the
\* name of a declared product, carrying the cut skuName, and no other: a sku
\* has no error exactly when its cut skuName is the name of a product.
C23_SkuKey ==
    [][(DealReferencesChecked /\ Objects(doc)
        /\ \A i \in 1..Len(SkuNames(doc)) : SkuNames(doc)[i].t = "str") =>
         LET keys == [i \in 1..Len(SkuNames(doc)) |-> BeforeParen(SkuNames(doc)[i].s)]
         IN Values(Appended(errors, errors'))
              = SelectSeq(keys, LAMBDA key : Str(key) \notin ProductNames(doc))]_vars

DealStructureChecked ==
    pc = "validate_deal_structure" /\ pc' = After("validate_deal_structure")

\* The kinds of the errors about the lines, the skus and the skuName.
LineKinds == {"deal_lines_required", "deal_skus_required", "deal_skuName_required"}

\* The member that should be a list is absent, null or empty.
NoEntries(member) == member.t \in {"absent", "null"} \/ (member.t = "list" /\ member.v = <<>>)

\* The positions <<j>> of the lines without skus and <<j, k>> of the skus
\* without skuName, of lines that are not empty, in document order.
DefectsOfLines(lines) ==
    Flatten([j \in 1..Len(lines) |->
        IF NoEntries(lines[j].skus) THEN <<<<j>>>>
        ELSE Flatten([k \in 1..Len(lines[j].skus.v) |->
                 IF Truthy(lines[j].skus.v[k].skuName) THEN <<>> ELSE <<<<j, k>>>>])])

\* The defects of every deal, each with the name or the label of its deal.
DefectsOfDeals(deals) ==
    Flatten([i \in 1..Len(deals) |->
        LET owner == NameOrLabel(deals[i].name, TextDeal, i)
            found == IF NoEntries(deals[i].lines) THEN <<<<>>>>
                     ELSE DefectsOfLines(deals[i].lines.v)
        IN [n \in 1..Len(found) |-> [owner |-> owner, nums |-> found[n]]]])

\* C24: the call of _validate_deal_structure appends, about lines, skus and
\* skuName, one error for each deal whose lines are absent or empty, else one
\* for each of its lines whose skus are absent or empty, else one for each
\* sku of the line whose skuName is absent or empty, in document order and
\* with its deal, line and sku: none is left out after an earlier defect.
C24_DealStructure ==
    [][DealStructureChecked =>
         LET found == SelectSeq(Appended(errors, errors'), LAMBDA e : e.kind \in LineKinds)
         IN [n \in 1..Len(found) |-> [owner |-> found[n].owner, nums |-> found[n].nums]]
              = DefectsOfDeals(Entities(doc, "deals"))]_vars

\* Three deals: the first without lines; the second with a line without
\* skus, then a line whose first and third skus have no skuName; the third
\* with no line. Each of the five defects has its error.
C24_Witness ==
    /\ pc = After("validate_deal_structure")
    /\ Len(Entities(doc, "deals")) = 3
    /\ Values(ErrorsOf("deal_lines_required")) = <<<<>>, <<>>>>
    /\ [n \in 1..2 |-> ErrorsOf("deal_lines_required")[n].owner] = <<Promo, Soldes>>
    /\ Len(ErrorsOf("deal_skus_required")) = 1
    /\ ErrorsOf("deal_skus_required")[1].nums = <<1>>
    /\ [n \in 1..Len(ErrorsOf("deal_skuName_required")) |->
          ErrorsOf("deal_skuName_required")[n].nums] = <<<<2, 1>>, <<2, 3>>>>

(***************************************************************************)
(* Properties of the suggested refs                                        *)
(***************************************************************************)
\* The warnings about the format of a ref, of the four kinds.
RefFormatWarnings == SelectSeq(warnings, LAMBDA w : w.kind \in {u[2] : u \in RefLists})

\* C25: the ref that a ref-format warning suggests matches REF_PATTERN
\* itself, so the format check would not warn about it.
C25_SuggestionMatches ==
    \A i \in 1..Len(RefFormatWarnings) : REF_PATTERN(RefFormatWarnings[i].sugg)

(***************************************************************************)
(* Properties of a second call of validate()                               *)
(***************************************************************************)
\* C26: a step of the second call of validate() on a validator leaves the
\* errors and the warnings as the first call left them, and the second call
\* returns what the first returned.
C26_SecondCall ==
    [][calls' = 2 =>
         /\ errors' = errors
         /\ warnings' = warnings
         /\ pc' = "print_report" => is_valid' = is_valid]_vars

=============================================================================
